---- MODULE Spec2Model ----
(***************************************************************************)
(* Model of the accent analyzer (src/accent_analyzer.py): the scoring     *)
(* engine AccentAnalyzer.analyze_accent and the helpers it calls.         *)
(*                                                                         *)
(* Numbers.  Feature values are fixed-point numbers with two decimals: a   *)
(* feature value v is held as the integer v * Scale.  Scores are held as   *)
(* integer multiples of 1/Pt of a point, with Pt chosen so that every      *)
(* quotient the code takes (x * 0.2, x * 0.3, x * 0.4, x / 30) is exact.   *)
(* Python's binary floating point rounding is not modelled.                *)
(*                                                                         *)
(* Exceptions.  A function that can raise is an operator returning         *)
(* [exc |-> cause, val |-> value]; exc = NoExc means a normal return.      *)
(***************************************************************************)
EXTENDS Integers, Sequences, FiniteSets, TLC

(***************************************************************************)
(* Bounds of the model.                                                    *)
(***************************************************************************)
\* longest transcript, in words of Vocab, that the recognizers produce
MaxWords == 1

(***************************************************************************)
(* Fixed-point resolution.                                                 *)
(***************************************************************************)
Scale == 100
Pt == 5 * 30 * Scale

Min(a, b) == IF a <= b THEN a ELSE b
Max(a, b) == IF a >= b THEN a ELSE b
Abs(x) == IF x < 0 THEN 0 - x ELSE x

(***************************************************************************)
(* Python strings.  A str is a TLA+ string; the operators below are the    *)
(* str methods the analyzer uses.                                          *)
(***************************************************************************)
CharAt(s, i) == SubSeq(s, i, i)

\* the characters of a string
CharsOf(s) == { CharAt(s, i) : i \in 1..Len(s) }

UpperLetters == "ABCDEFGHIJKLMNOPQRSTUVWXYZ"
LowerLetters == "abcdefghijklmnopqrstuvwxyz"
Digits == "0123456789"

UpperSet == CharsOf(UpperLetters)
WordCharSet == CharsOf(LowerLetters) \cup UpperSet \cup CharsOf(Digits) \cup { "_" }

\* str.lower() on one character
LowerChar(c) ==
    IF c \in UpperSet
    THEN CharAt(LowerLetters, CHOOSE i \in 1..Len(UpperLetters) : CharAt(UpperLetters, i) = c)
    ELSE c

RECURSIVE LowerFrom(_, _)
LowerFrom(s, i) ==
    IF i > Len(s) THEN "" ELSE LowerChar(CharAt(s, i)) \o LowerFrom(s, i + 1)

\* str.lower()
StrLower(s) == LowerFrom(s, 1)

\* the positions at which sub occurs in s
Occurrences(sub, s) ==
    { i \in 1..(Len(s) - Len(sub) + 1) : SubSeq(s, i, i + Len(sub) - 1) = sub }

\* Python's  sub in s
StrContains(sub, s) ==
    \E i \in 1..(Len(s) - Len(sub) + 1) : SubSeq(s, i, i + Len(sub) - 1) = sub

\* regex \w
IsWordChar(c) == c \in WordCharSet

\* regex \b at the gap before position i of s (1 <= i <= Len(s) + 1)
WordBoundaryAt(s, i) ==
    LET before == i > 1 /\ IsWordChar(CharAt(s, i - 1))
        after == i <= Len(s) /\ IsWordChar(CharAt(s, i))
    IN before # after

\* re.search(r'\bword\b', s) for a literal word
SearchWholeWord(word, s) ==
    \E i \in Occurrences(word, s) :
        WordBoundaryAt(s, i) /\ WordBoundaryAt(s, i + Len(word))

IsSpace(c) == c = " "

\* str.split(): the maximal runs of non-blank characters, in order
RECURSIVE SplitFrom(_, _, _)
SplitFrom(s, i, cur) ==
    IF i > Len(s) THEN (IF cur = "" THEN << >> ELSE << cur >>)
    ELSE IF IsSpace(CharAt(s, i))
         THEN (IF cur = "" THEN << >> ELSE << cur >>) \o SplitFrom(s, i + 1, "")
         ELSE SplitFrom(s, i + 1, cur \o CharAt(s, i))

StrSplit(s) == SplitFrom(s, 1, "")

\* str.split('.'): the pieces between the dots, empty pieces included
RECURSIVE SplitDotFrom(_, _, _)
SplitDotFrom(s, i, cur) ==
    IF i > Len(s) THEN << cur >>
    ELSE IF CharAt(s, i) = "."
         THEN << cur >> \o SplitDotFrom(s, i + 1, "")
         ELSE SplitDotFrom(s, i + 1, cur \o CharAt(s, i))

StrSplitDot(s) == SplitDotFrom(s, 1, "")

\* truth value of  s.strip()
StripNonEmpty(s) == \E i \in 1..Len(s) : ~IsSpace(CharAt(s, i))

\* " ".join(parts)
RECURSIVE JoinSpace(_)
JoinSpace(parts) ==
    IF Len(parts) = 0 THEN ""
    ELSE IF Len(parts) = 1 THEN parts[1]
    ELSE parts[1] \o " " \o JoinSpace(Tail(parts))

SeqToSet(q) == { q[i] : i \in 1..Len(q) }

\* sum(1 for w in words if w in text)
MatchCount(words, text) == Cardinality({ i \in 1..Len(words) : StrContains(words[i], text) })

(***************************************************************************)
(* State.                                                                  *)
(***************************************************************************)
VARIABLES
    accent_features,   \* self.accent_features, the profile table built by __init__
    pc,                \* "ready": a call is about to be made; "done": it has returned
    audio_path,        \* the call's audio file: what the recognizers do with it
    audio_features,    \* the call's audio_features argument
    result,            \* what the call did: [exc |-> ..., val |-> the returned record]
    calls,             \* the number of analyze_accent calls made on this analyzer
    earlier,           \* history: an earlier call on this analyzer and what it returned
    report,            \* the text generate_report returned for result, as its lines
    stage,             \* main: "idle", the step the job is at, or "ended"
    processing,        \* st.session_state.processing
    analysis_result,   \* st.session_state.analysis_result
    shown,             \* the text (after its symbol) of the first st.error of the run, or ""
    dirs,              \* the temporary directories that exist
    files,             \* the files that exist, each [dir, name]
    job,               \* the job's environment: what the libraries do with its url and files
    video_path,        \* main's local video_path
    wav_path,          \* main's local audio_path
    extracted,         \* what extract_features did in the job: [exc, val]
    jobs,              \* the number of jobs started in the session
    completed,         \* history: the steps of the job that have completed, in order
    stored_before,     \* history: a result was stored when the job was started
    tstep,             \* _transcribe_audio: the statement the call is at, or "returned"
    attempts,          \* _transcribe_audio: the library calls made so far and how they went
    transcribed,       \* what the _transcribe_audio call did: [exc, val]
    sub_scores,        \* the tempo and pitch sub-scores computed for audio_features
    waveform,          \* the y handed to _estimate_speech_segments
    estimated,         \* what _estimate_speech_segments returned for waveform
    english_score      \* the proficiency computed for the inputs and the colour it is shown in

\* the state of the job pipeline of main
jobvars == << stage, processing, analysis_result, shown, dirs, files, job, video_path,
              wav_path, extracted, jobs, completed, stored_before >>

\* the state of a call of _transcribe_audio taken statement by statement
transcribevars == << tstep, attempts, transcribed >>

\* the state of a call of _estimate_speech_segments
segmentvars == << waveform, estimated >>

\* the state outside the analyzer and its caller
rest == << report, jobvars, transcribevars, sub_scores, segmentvars, english_score >>

vars == << accent_features, pc, audio_path, audio_features, result, calls, earlier, rest >>

\* no report has been generated
NoReport == << >>

\* Python's None
None == [ none |-> TRUE ]

\* no path is held
NoPath == [ dir |-> "", name |-> "" ]

\* no job has been started, extract_features has not been called
NoJob == [ started |-> FALSE ]
NotExtracted == [ exc |-> "not called", val |-> 0 ]

\* the session state main initialises, before any job
JobIdle ==
    /\ stage = "idle"
    /\ processing = FALSE
    /\ analysis_result = None
    /\ shown = ""
    /\ dirs = {}
    /\ files = {}
    /\ job = NoJob
    /\ video_path = NoPath
    /\ wav_path = NoPath
    /\ extracted = NotExtracted
    /\ jobs = 0
    /\ completed = << >>
    /\ stored_before = FALSE

\* _transcribe_audio is not being stepped through
NotTranscribed == [ exc |-> "not called", val |-> 0 ]
TranscribeIdle == tstep = "idle" /\ attempts = << >> /\ transcribed = NotTranscribed

\* no sub-scores have been computed
NotScored == [ scored |-> FALSE ]

\* _estimate_speech_segments has not been called
NoWaveform == [ raises |-> FALSE, frame_energy |-> << >> ]
NotEstimated == << << -1, -1 >> >>
SegmentsIdle == waveform = NoWaveform /\ estimated = NotEstimated

\* no proficiency has been computed
NotGraded == [ value |-> 0, color |-> "" ]

\* nothing outside the analyzer has happened
RestIdle ==
    /\ report = NoReport /\ JobIdle /\ TranscribeIdle /\ sub_scores = NotScored /\ SegmentsIdle
    /\ english_score = NotGraded

NoExc == "none"
Returned(v) == [exc |-> NoExc, val |-> v]
Raised(cause) == [exc |-> cause, val |-> 0]

(***************************************************************************)
(* The profile table.  Only the entries the code reads are kept            *)
(* (tempo_range, pitch_variation, keywords); a dict iterates in insertion  *)
(* order, which AccentOrder records.                                       *)
(***************************************************************************)
AccentOrder == << "American", "British", "Australian", "Canadian", "Indian" >>
Accents == SeqToSet(AccentOrder)

AccentFeaturesInit ==
    [ American   |-> [ tempo_range |-> << 140 * Scale, 180 * Scale >>,
                       pitch_variation |-> "moderate",
                       keywords |-> << "can't", "dance", "path", "bath" >> ],
      British    |-> [ tempo_range |-> << 120 * Scale, 160 * Scale >>,
                       pitch_variation |-> "high",
                       keywords |-> << "can't", "dance", "path", "bath" >> ],
      Australian |-> [ tempo_range |-> << 130 * Scale, 170 * Scale >>,
                       pitch_variation |-> "high",
                       keywords |-> << "day", "mate", "no" >> ],
      Canadian   |-> [ tempo_range |-> << 135 * Scale, 175 * Scale >>,
                       pitch_variation |-> "moderate",
                       keywords |-> << "about", "house", "out" >> ],
      Indian     |-> [ tempo_range |-> << 150 * Scale, 200 * Scale >>,
                       pitch_variation |-> "very_high",
                       keywords |-> << "very", "good", "only" >> ] ]

(***************************************************************************)
(* The audio_features argument.  [mapping |-> FALSE] is an argument that   *)
(* is no dict (None); otherwise val holds the entries present and nonnum   *)
(* the keys whose value is not a number (a str), for which val holds 0.    *)
(***************************************************************************)
\* audio_features.get(key, 0)
Get(f, key) == IF key \in DOMAIN f.val THEN f.val[key] ELSE 0
\* the value read by get can be compared and divided
IsNumber(f, key) == key \notin f.nonnum

\* np.mean of a pair
Mean(range) == (range[1] + range[2]) \div 2

(***************************************************************************)
(* _analyze_text_patterns                                                  *)
(***************************************************************************)
british_words == << "whilst", "amongst", "colour", "favour", "realise" >>
aussie_words == << "mate", "bloke", "sheila", "fair dinkum" >>
canadian_words == << "eh", "aboot", "hoose", "oot" >>
indian_patterns == << "very good", "only", "what is your good name", "please do the needful" >>

\* the accent-specific part, in text points
SpecificPatternScore(accent_name, text_lower) ==
    CASE accent_name = "American" ->
            IF SearchWholeWord("can't", text_lower) /\ StrContains("can't", text_lower)
            THEN 10 ELSE 0
      [] accent_name = "British" -> MatchCount(british_words, text_lower) * 8
      [] accent_name = "Australian" -> MatchCount(aussie_words, text_lower) * 10
      [] accent_name = "Canadian" -> MatchCount(canadian_words, text_lower) * 10
      [] accent_name = "Indian" -> MatchCount(indian_patterns, text_lower) * 8
      [] OTHER -> 0

\* the text score, 0..100 text points
AnalyzeTextPatterns(accent_name, transcription) ==
    LET text_lower == StrLower(transcription)
        accent_keywords == accent_features[accent_name].keywords
        keyword_matches == MatchCount(accent_keywords, text_lower)
        score == keyword_matches * 5 + SpecificPatternScore(accent_name, text_lower)
    IN Min(100, score)

(***************************************************************************)
(* _calculate_accent_score: the five sub-scores, in units of 1/Pt point.   *)
(***************************************************************************)
\* TempoScore with half credit also at exactly 30 from the midpoint
TempoScoreInclusive(accent_name, f) ==
    LET tempo == Get(f, "tempo")
        tempo_range == accent_features[accent_name].tempo_range
    IN IF tempo_range[1] <= tempo /\ tempo <= tempo_range[2] THEN 20 * Pt
       ELSE IF Abs(tempo - Mean(tempo_range)) <= 30 * Scale THEN 10 * Pt
       ELSE 0

\* 1. tempo analysis
TempoScore(accent_name, f) ==
    LET tempo == Get(f, "tempo")
        tempo_range == accent_features[accent_name].tempo_range
    IN IF tempo_range[1] <= tempo /\ tempo <= tempo_range[2] THEN 20 * Pt
       ELSE IF Abs(tempo - Mean(tempo_range)) < 30 * Scale THEN 10 * Pt
       ELSE 0

\* PitchScore with a high band that has no upper end
PitchScoreHighUnbounded(accent_name, f) ==
    LET pitch_std == Get(f, "pitch_std")
        pitch_variation == accent_features[accent_name].pitch_variation
    IN IF pitch_variation = "very_high" /\ pitch_std > 80 * Scale THEN 25 * Pt
       ELSE IF pitch_variation = "high" /\ 50 * Scale < pitch_std THEN 25 * Pt
       ELSE IF pitch_variation = "moderate" /\ 20 * Scale < pitch_std /\ pitch_std <= 50 * Scale THEN 25 * Pt
       ELSE IF pitch_variation = "low" /\ pitch_std <= 20 * Scale THEN 25 * Pt
       ELSE 0

\* PitchScore with the moderate band running up to 80, over the high band
PitchScoreOverlap(accent_name, f) ==
    LET pitch_std == Get(f, "pitch_std")
        pitch_variation == accent_features[accent_name].pitch_variation
    IN IF pitch_variation = "very_high" /\ pitch_std > 80 * Scale THEN 25 * Pt
       ELSE IF pitch_variation = "high" /\ 50 * Scale < pitch_std /\ pitch_std <= 80 * Scale THEN 25 * Pt
       ELSE IF pitch_variation = "moderate" /\ 20 * Scale < pitch_std /\ pitch_std <= 80 * Scale THEN 25 * Pt
       ELSE IF pitch_variation = "low" /\ pitch_std <= 20 * Scale THEN 25 * Pt
       ELSE 0

\* 2. pitch variation analysis
PitchScore(accent_name, f) ==
    LET pitch_std == Get(f, "pitch_std")
        pitch_variation == accent_features[accent_name].pitch_variation
    IN IF pitch_variation = "very_high" /\ pitch_std > 80 * Scale THEN 25 * Pt
       ELSE IF pitch_variation = "high" /\ 50 * Scale < pitch_std /\ pitch_std <= 80 * Scale THEN 25 * Pt
       ELSE IF pitch_variation = "moderate" /\ 20 * Scale < pitch_std /\ pitch_std <= 50 * Scale THEN 25 * Pt
       ELSE IF pitch_variation = "low" /\ pitch_std <= 20 * Scale THEN 25 * Pt
       ELSE 0

\* mfcc_features[i]
Mfcc(f, i) ==
    Get(f, CASE i = 0 -> "mfcc_0_mean" [] i = 1 -> "mfcc_1_mean" [] i = 2 -> "mfcc_2_mean"
             [] i = 3 -> "mfcc_3_mean" [] i = 4 -> "mfcc_4_mean")

\* 3. spectral features analysis
SpectralScore(accent_name, f) ==
    CASE accent_name = "American" ->
            IF Mfcc(f, 1) > 0 /\ Mfcc(f, 2) < 0 THEN 15 * Pt ELSE 0
      [] accent_name = "British" ->
            IF Mfcc(f, 1) < 0 /\ Mfcc(f, 3) > 0 THEN 15 * Pt ELSE 0
      [] accent_name = "Australian" ->
            IF Mfcc(f, 2) > 0 /\ Mfcc(f, 4) > 0 THEN 15 * Pt ELSE 0
      [] accent_name = "Indian" ->
            IF Mfcc(f, 0) > 10 * Scale /\ Mfcc(f, 1) > 0 THEN 15 * Pt ELSE 0
      [] OTHER -> 0

expected_rates ==
    [ American   |-> << 4 * Scale, 6 * Scale >>,
      British    |-> << 3 * Scale, 5 * Scale >>,
      Australian |-> << 4 * Scale, 6 * Scale >>,
      Canadian   |-> << 4 * Scale, 6 * Scale >>,
      Indian     |-> << 5 * Scale, 8 * Scale >> ]

\* 4. speech rate analysis
SpeechRateScore(accent_name, f) ==
    LET speech_rate == Get(f, "speech_rate")
    IN IF accent_name \in DOMAIN expected_rates
       THEN LET rate_range == expected_rates[accent_name]
            IN IF rate_range[1] <= speech_rate /\ speech_rate <= rate_range[2] THEN 15 * Pt
               ELSE IF Abs(speech_rate - Mean(rate_range)) < 2 * Scale THEN 10 * Pt
               ELSE 0
       ELSE 0

\* LexicalScore with the weight 2 in place of 0.2
LexicalScoreTimes2(accent_name, transcription) ==
    IF transcription # ""
    THEN AnalyzeTextPatterns(accent_name, transcription) * Pt * 2
    ELSE 0

\* LexicalScore granting half of the lexical cap when there is no transcript
LexicalScoreNeutral(accent_name, transcription) ==
    IF transcription # ""
    THEN (AnalyzeTextPatterns(accent_name, transcription) * Pt * 2) \div 10
    ELSE 10 * Pt

\* 5. transcription analysis: text_score * 0.2
LexicalScore(accent_name, transcription) ==
    IF transcription # ""
    THEN (AnalyzeTextPatterns(accent_name, transcription) * Pt * 2) \div 10
    ELSE 0

\* score, the sum of the achieved sub-scores
RawScore(accent_name, f, transcription) ==
    TempoScore(accent_name, f) + PitchScore(accent_name, f) + SpectralScore(accent_name, f)
        + SpeechRateScore(accent_name, f) + LexicalScore(accent_name, transcription)

\* max_score, the sum of the caps
max_score == 20 * Pt + 25 * Pt + 20 * Pt + 15 * Pt + 20 * Pt

\* final_score before the quality weighting
PercentageScore(accent_name, f, transcription) ==
    IF max_score > 0
    THEN (RawScore(accent_name, f, transcription) * 100) \div (max_score \div Pt)
    ELSE 0

\* QualityFactor without the discount
QualityFactorNone(f) == 30 * Scale

\* QualityFactor never below 0.1
QualityFactorFloored(f) == Max(3 * Scale, Min(30 * Scale, Get(f, "duration")))

\* quality_factor = min(1.0, duration / 30), as a fraction of 30 * Scale
QualityFactor(f) == Min(30 * Scale, Get(f, "duration"))

\* final_score *= quality_factor.  A score is a multiple of Pt / 5 = 30 * Scale, so
\* the quotient is exact; it is taken first to stay within TLC's 32-bit integers
QualityWeighted(final_score, f) == (final_score \div (30 * Scale)) * QualityFactor(f)

\* Clamp without the lower limit
ClampUpperOnly(x) == Min(100 * Pt, x)

\* min(100, max(0, x))
Clamp(x) == Min(100 * Pt, Max(0, x))

\* a comparison or division of the try block of _calculate_accent_score raises
ScoreRaises(accent_name, f) ==
    \/ ~f.mapping
    \/ ~IsNumber(f, "tempo")
    \/ /\ ~IsNumber(f, "pitch_std")
       /\ accent_features[accent_name].pitch_variation \in {"very_high", "high", "moderate", "low"}
    \/ CASE accent_name = "American" ->
              ~IsNumber(f, "mfcc_1_mean") \/ (Mfcc(f, 1) > 0 /\ ~IsNumber(f, "mfcc_2_mean"))
         [] accent_name = "British" ->
              ~IsNumber(f, "mfcc_1_mean") \/ (Mfcc(f, 1) < 0 /\ ~IsNumber(f, "mfcc_3_mean"))
         [] accent_name = "Australian" ->
              ~IsNumber(f, "mfcc_2_mean") \/ (Mfcc(f, 2) > 0 /\ ~IsNumber(f, "mfcc_4_mean"))
         [] accent_name = "Indian" ->
              ~IsNumber(f, "mfcc_0_mean") \/ (Mfcc(f, 0) > 10 * Scale /\ ~IsNumber(f, "mfcc_1_mean"))
         [] OTHER -> FALSE
    \/ (accent_name \in DOMAIN expected_rates /\ ~IsNumber(f, "speech_rate"))
    \/ ~IsNumber(f, "duration")

\* the try block of _calculate_accent_score
AccentScoreBody(accent_name, f, transcription) ==
    IF ScoreRaises(accent_name, f)
    THEN Raised(IF f.mapping THEN "TypeError" ELSE "AttributeError")
    ELSE LET final_score ==
                 QualityWeighted(PercentageScore(accent_name, f, transcription), f)
         IN Returned(Clamp(final_score))

\* _calculate_accent_score: any exception becomes the score 0.0
CalculateAccentScore(accent_name, f, transcription) ==
    LET body == AccentScoreBody(accent_name, f, transcription)
    IN IF body.exc # NoExc THEN 0 ELSE body.val

(***************************************************************************)
(* _calculate_english_proficiency                                          *)
(***************************************************************************)
ClarityScore(f) ==
    (IF Get(f, "rms_mean") > Scale \div 100 THEN 20 ELSE 0)
    + (IF (30 * Scale) \div 100 < Get(f, "zcr_mean") /\ Get(f, "zcr_mean") < (70 * Scale) \div 100
       THEN 20 ELSE 0)
    + (IF Get(f, "spectral_centroid_mean") > 1000 * Scale THEN 15 ELSE 0)

FluencyScore(f) ==
    (IF 3 * Scale <= Get(f, "speech_rate") /\ Get(f, "speech_rate") <= 7 * Scale THEN 25 ELSE 0)
    + (IF 120 * Scale <= Get(f, "tempo") /\ Get(f, "tempo") <= 200 * Scale THEN 15 ELSE 0)

\* len([s for s in transcription.split('.') if s.strip()])
SentenceCount(transcription) ==
    LET pieces == StrSplitDot(transcription)
    IN Cardinality({ i \in 1..Len(pieces) : StripNonEmpty(pieces[i]) })

LanguageScore(transcription) ==
    IF transcription # ""
    THEN LET word_count == Len(StrSplit(transcription))
             sentence_count == SentenceCount(transcription)
             unique_words == Cardinality(SeqToSet(StrSplit(StrLower(transcription))))
         IN (IF word_count > 10 THEN 20 ELSE 0)
            + (IF sentence_count > 0 THEN 10 ELSE 0)
            + (IF unique_words * 10 > word_count * 7 THEN 10 ELSE 0)
    ELSE 0

\* a comparison of the try block of _calculate_english_proficiency raises
ProficiencyRaises(f) ==
    \/ ~f.mapping
    \/ \E key \in {"rms_mean", "zcr_mean", "spectral_centroid_mean", "speech_rate", "tempo"} :
           ~IsNumber(f, key)

\* the try block with the three scores added without their weights
ProficiencyBodyUnweighted(f, transcription) ==
    IF ProficiencyRaises(f)
    THEN Raised(IF f.mapping THEN "TypeError" ELSE "AttributeError")
    ELSE LET proficiency == ClarityScore(f) * Pt + FluencyScore(f) * Pt
                            + LanguageScore(transcription) * Pt
         IN Returned(Clamp(proficiency))

\* the try block of _calculate_english_proficiency
ProficiencyBody(f, transcription) ==
    IF ProficiencyRaises(f)
    THEN Raised(IF f.mapping THEN "TypeError" ELSE "AttributeError")
    ELSE LET proficiency == (ClarityScore(f) * 4 * Pt) \div 10
                            + (FluencyScore(f) * 3 * Pt) \div 10
                            + (LanguageScore(transcription) * 3 * Pt) \div 10
         IN Returned(Clamp(proficiency))

\* _calculate_english_proficiency: any exception becomes 50.0
CalculateEnglishProficiency(f, transcription) ==
    LET body == ProficiencyBody(f, transcription)
    IN IF body.exc # NoExc THEN 50 * Pt ELSE body.val

(***************************************************************************)
(* _generate_summary                                                       *)
(***************************************************************************)
SummaryRaises(f) ==
    \/ ~f.mapping
    \/ \E key \in {"duration", "speech_rate", "rms_mean"} : ~IsNumber(f, key)

SummaryParts(accent, confidence, transcription, f) ==
    << IF confidence >= 80 * Pt
       THEN "Strong indicators of " \o accent \o " English accent detected."
       ELSE IF confidence >= 60 * Pt
       THEN "Moderate indicators of " \o accent \o " English accent detected."
       ELSE IF confidence >= 40 * Pt
       THEN "Some characteristics of " \o accent \o " English accent present."
       ELSE "Accent classification uncertain. Possible " \o accent \o " influence." >>
    \o (IF Get(f, "duration") < 10 * Scale
        THEN << "Short audio sample may limit accuracy." >>
        ELSE IF Get(f, "duration") > 60 * Scale
        THEN << "Long audio sample provides good analysis depth." >>
        ELSE << >>)
    \o (IF Get(f, "speech_rate") > 6 * Scale THEN << "Fast speaking pace observed." >>
        ELSE IF Get(f, "speech_rate") < 3 * Scale THEN << "Slow speaking pace observed." >>
        ELSE << "Normal speaking pace." >>)
    \o (IF Get(f, "rms_mean") > (5 * Scale) \div 100 THEN << "Clear audio quality." >>
        ELSE IF Get(f, "rms_mean") < Scale \div 100
        THEN << "Audio quality may affect accuracy." >>
        ELSE << >>)
    \o (IF transcription # "" /\ Len(StrSplit(transcription)) > 20
        THEN << "Sufficient speech content for reliable analysis." >>
        ELSE IF transcription # ""
        THEN << "Limited speech content detected." >>
        ELSE << "Speech transcription unavailable - analysis based on audio features only." >>)

\* _generate_summary: any exception becomes the fixed sentence
GenerateSummary(accent, confidence, transcription, f) ==
    IF SummaryRaises(f)
    THEN "Analysis completed with limited information available."
    ELSE JoinSpace(SummaryParts(accent, confidence, transcription, f))

(***************************************************************************)
(* _transcribe_audio.  audio_path stands for what the speech recognition   *)
(* library does with the file: fail names the step before recognition     *)
(* that raises ("open", "adjust", "record") or "none"; google and sphinx   *)
(* are the recognizers' outcomes; text is what recognize_google returns    *)
(* when it succeeds, sphinx_text what recognize_sphinx returns.            *)
(***************************************************************************)
\* the with block inside the outer try
TranscribeBody(path) ==
    IF path.fail # "none" THEN Raised(path.fail)
    ELSE CASE path.google = "text" -> Returned(path.text)
           [] path.google = "UnknownValueError" ->
                  IF path.sphinx = "text" THEN Returned(path.sphinx_text) ELSE Returned("")
           [] path.google = "RequestError" -> Returned("")
           [] OTHER -> Raised(path.google)

\* _transcribe_audio: any other exception becomes ""
TranscribeAudio(path) ==
    LET body == TranscribeBody(path)
    IN IF body.exc # NoExc THEN "" ELSE body.val

(***************************************************************************)
(* analyze_accent                                                          *)
(***************************************************************************)
\* MaxKeyFrom in which a later key wins with an equal score
RECURSIVE MaxKeyFromLast(_, _, _, _)
MaxKeyFromLast(order, scores, i, best) ==
    IF i > Len(order) THEN best
    ELSE MaxKeyFromLast(order, scores, i + 1,
                        IF scores[order[i]] >= scores[best] THEN order[i] ELSE best)

\* max(accent_scores, key=accent_scores.get): the keys are visited in
\* insertion order and a later key wins only with a strictly greater score
RECURSIVE MaxKeyFrom(_, _, _, _)
MaxKeyFrom(order, scores, i, best) ==
    IF i > Len(order) THEN best
    ELSE MaxKeyFrom(order, scores, i + 1,
                    IF scores[order[i]] > scores[best] THEN order[i] ELSE best)

MaxKey(order, scores) == MaxKeyFrom(order, scores, 2, order[1])

\* a value as audio_features.get hands it on, unread
Entry(f, key) == [number |-> IsNumber(f, key), v |-> Get(f, key)]

\* the try block of analyze_accent
AnalyzeBody(path, f) ==
    LET transcription == TranscribeAudio(path)
        accent_scores == [ a \in Accents |-> CalculateAccentScore(a, f, transcription) ]
        primary_accent == MaxKey(AccentOrder, accent_scores)
        confidence == accent_scores[primary_accent]
        english_proficiency == CalculateEnglishProficiency(f, transcription)
        summary == GenerateSummary(primary_accent, confidence, transcription, f)
    IN IF ~f.mapping
       THEN Raised("'NoneType' object has no attribute 'get'")
       ELSE Returned(
              [ accent |-> primary_accent,
                confidence |-> confidence,
                english_proficiency |-> english_proficiency,
                summary |-> summary,
                transcription |-> transcription,
                technical_details |->
                    [ all_accent_scores |-> accent_scores,
                      transcription_length |->
                          IF transcription # "" THEN Len(StrSplit(transcription)) ELSE 0,
                      audio_duration |-> Entry(f, "duration"),
                      speech_rate |-> Entry(f, "speech_rate"),
                      pitch_mean |-> Entry(f, "pitch_mean"),
                      tempo |-> Entry(f, "tempo") ] ])

\* Sentinel with the default proficiency of _calculate_english_proficiency
SentinelMediumProficiency(cause) ==
    [ accent |-> "Unknown",
      confidence |-> 0,
      english_proficiency |-> 50 * Pt,
      summary |-> "Analysis failed: " \o cause,
      transcription |-> "",
      technical_details |-> [ error |-> cause ] ]

\* the record returned by the except clause of analyze_accent
Sentinel(cause) ==
    [ accent |-> "Unknown",
      confidence |-> 0,
      english_proficiency |-> 0,
      summary |-> "Analysis failed: " \o cause,
      transcription |-> "",
      technical_details |-> [ error |-> cause ] ]

\* AnalyzeAccent without the except clause
AnalyzeAccentUnguarded(path, f) == AnalyzeBody(path, f)

\* analyze_accent: what the caller gets
AnalyzeAccent(path, f) ==
    LET body == AnalyzeBody(path, f)
    IN IF body.exc # NoExc THEN Returned(Sentinel(body.exc)) ELSE body

(***************************************************************************)
(* The calls the model makes.                                              *)
(***************************************************************************)
Vocab == << "Can't", "mate.", "about", "only" >>

RECURSIVE Sentences(_)
\* the texts of exactly n words of Vocab
Sentences(n) ==
    IF n = 0 THEN { "" }
    ELSE IF n = 1 THEN SeqToSet(Vocab)
    ELSE { s \o " " \o w : s \in Sentences(n - 1), w \in SeqToSet(Vocab) }

ExampleTranscript == "can't dance in the bath"

Transcripts == UNION { Sentences(n) : n \in 0..MaxWords } \cup { ExampleTranscript }

\* the recognizer hears text
Heard(text) ==
    [ fail |-> "none", google |-> "text", sphinx |-> "text", text |-> text,
      sphinx_text |-> text ]

\* the ways recognition can go
Recognitions ==
    [ fail : {"none", "open", "adjust", "record"},
      google : {"text", "UnknownValueError", "RequestError", "error"},
      sphinx : {"text", "error"},
      text : {"Can't", ExampleTranscript},
      sphinx_text : {"can't"} ]

\* the values of a call's features: around the thresholds, negative, very large
VeryLarge == 1000000 * Scale
TempoValues == { -1000 * Scale, 125 * Scale, 150 * Scale, VeryLarge }
PitchStdValues == { -1000 * Scale, 30 * Scale, 60 * Scale, VeryLarge }
SpeechRateValues == { -1000 * Scale, 5 * Scale, (65 * Scale) \div 10, VeryLarge }
DurationValues == { -1000 * Scale, 0, 15 * Scale, 40 * Scale, VeryLarge }

NoEntries == [ key \in {} |-> 0 ]

\* the spectral and energy entries of a call's features
SpectralPatterns ==
    { NoEntries,
      ("mfcc_1_mean" :> 1 * Scale) @@ ("mfcc_2_mean" :> -1 * Scale),
      ("mfcc_1_mean" :> -1 * Scale) @@ ("mfcc_3_mean" :> 1 * Scale)
          @@ ("rms_mean" :> (6 * Scale) \div 100) @@ ("zcr_mean" :> (50 * Scale) \div 100)
          @@ ("spectral_centroid_mean" :> 2000 * Scale) @@ ("pitch_mean" :> 180 * Scale),
      ("mfcc_0_mean" :> 11 * Scale) @@ ("mfcc_1_mean" :> 1 * Scale)
          @@ ("mfcc_2_mean" :> 1 * Scale) @@ ("mfcc_4_mean" :> 1 * Scale)
          @@ ("rms_mean" :> (3 * Scale) \div 100) @@ ("zcr_mean" :> (80 * Scale) \div 100)
          @@ ("spectral_centroid_mean" :> 900 * Scale) @@ ("pitch_mean" :> 120 * Scale) }

\* the feature vectors whose values are all numbers
NumericFeatures ==
    { [ mapping |-> TRUE,
        nonnum |-> {},
        val |-> ("tempo" :> t) @@ ("pitch_std" :> p) @@ ("speech_rate" :> r)
                    @@ ("duration" :> d) @@ m ] :
        t \in TempoValues, p \in PitchStdValues, r \in SpeechRateValues,
        d \in DurationValues, m \in SpectralPatterns }

NotAMapping == [ mapping |-> FALSE, nonnum |-> {}, val |-> NoEntries ]

FeatureNames ==
    { "tempo", "pitch_std", "pitch_mean", "speech_rate", "duration", "rms_mean", "zcr_mean",
      "spectral_centroid_mean", "mfcc_0_mean", "mfcc_1_mean", "mfcc_2_mean", "mfcc_3_mean",
      "mfcc_4_mean" }

GoodVector ==
    ("tempo" :> 150 * Scale) @@ ("pitch_std" :> 60 * Scale) @@ ("speech_rate" :> 5 * Scale)
        @@ ("duration" :> 40 * Scale) @@ ("mfcc_1_mean" :> 1 * Scale)
        @@ ("mfcc_2_mean" :> -1 * Scale)

\* arguments that are no dict, have no entries, or hold a value that is no number
MalformedFeatures ==
    { NotAMapping, [ mapping |-> TRUE, nonnum |-> {}, val |-> NoEntries ] }
    \cup { [ mapping |-> TRUE, nonnum |-> { key },
             val |-> (key :> 0) @@ GoodVector ] : key \in FeatureNames }

\* the (audio_path, audio_features) pairs of the calls
Calls ==
    ({ Heard(t) : t \in Transcripts } \X NumericFeatures)
    \cup (Recognitions \X (MalformedFeatures
                            \cup { [ mapping |-> TRUE, nonnum |-> {}, val |-> GoodVector ] }))

NoResult == Raised("not called")
NoCall == [ made |-> FALSE ]

Init ==
    /\ accent_features = AccentFeaturesInit
    /\ pc = "ready"
    /\ \E call \in Calls : audio_path = call[1] /\ audio_features = call[2]
    /\ result = NoResult
    /\ calls = 0
    /\ earlier = NoCall
    /\ RestIdle

\* Analyze in which the analyzer adds the transcript it has just heard to the
\* keywords of the accent it chose
AnalyzeLearning ==
    LET r == AnalyzeAccent(audio_path, audio_features)
        heard == StrLower(TranscribeAudio(audio_path))
    IN /\ pc = "ready"
       /\ result' = r
       /\ pc' = "done"
       /\ calls' = calls + 1
       /\ accent_features' =
              IF r.exc = NoExc /\ r.val.accent \in Accents /\ heard # ""
              THEN [ accent_features EXCEPT ![r.val.accent].keywords = Append(@, heard) ]
              ELSE accent_features
       /\ UNCHANGED << audio_path, audio_features, earlier, rest >>

\* analyzer.analyze_accent(audio_path, audio_features)
Analyze ==
    /\ pc = "ready"
    /\ result' = AnalyzeAccent(audio_path, audio_features)
    /\ pc' = "done"
    /\ calls' = calls + 1
    /\ UNCHANGED << accent_features, audio_path, audio_features, earlier, rest >>

Next == Analyze

Spec == Init /\ [][Next]_vars

(***************************************************************************)
(* Several calls on one analyzer.                                          *)
(***************************************************************************)
\* calls made on one analyzer
MaxCalls == 3

TieVector ==
    ("tempo" :> 150 * Scale) @@ ("pitch_std" :> 30 * Scale) @@ ("speech_rate" :> 5 * Scale)
        @@ ("duration" :> 15 * Scale)

\* the calls that are repeated
RepeatCalls ==
    { Heard(ExampleTranscript), Heard("Can't"), Heard(""),
      [ fail |-> "none", google |-> "UnknownValueError", sphinx |-> "text", text |-> "",
        sphinx_text |-> "Can't" ],
      [ fail |-> "none", google |-> "RequestError", sphinx |-> "text", text |-> "Can't",
        sphinx_text |-> "can't" ] }
    \X { [ mapping |-> TRUE, nonnum |-> {}, val |-> GoodVector ],
         [ mapping |-> TRUE, nonnum |-> {}, val |-> TieVector ],
         [ mapping |-> TRUE, nonnum |-> { "tempo" }, val |-> ("tempo" :> 0) @@ GoodVector ],
         NotAMapping }

InitRepeat ==
    /\ accent_features = AccentFeaturesInit
    /\ pc = "ready"
    /\ \E call \in RepeatCalls : audio_path = call[1] /\ audio_features = call[2]
    /\ result = NoResult
    /\ calls = 0
    /\ earlier = NoCall
    /\ RestIdle

\* the caller makes another call on the same analyzer; the history keeps
\* either the call that has just returned or the one it already held
CallAgain ==
    /\ pc = "done"
    /\ calls < MaxCalls
    /\ \E call \in RepeatCalls : audio_path' = call[1] /\ audio_features' = call[2]
    /\ \E keep \in BOOLEAN :
           earlier' = IF keep /\ earlier.made THEN earlier
                      ELSE [ made |-> TRUE, path |-> audio_path,
                             features |-> audio_features, result |-> result ]
    /\ pc' = "ready"
    /\ UNCHANGED << accent_features, result, calls, rest >>

NextRepeat == Analyze \/ CallAgain

SpecRepeat == InitRepeat /\ [][NextRepeat]_vars

(***************************************************************************)
(* Properties.                                                             *)
(***************************************************************************)
\* the call has returned or raised
Done == pc = "done"
\* the transcript the call worked with
Transcription == TranscribeAudio(audio_path)
\* every value of the feature vector is a number
AllNumbers == audio_features.mapping /\ audio_features.nonnum = {}
\* the call returned a record that carries a score breakdown
HasBreakdown ==
    /\ Done
    /\ result.exc = NoExc
    /\ "all_accent_scores" \in DOMAIN result.val.technical_details
Breakdown == result.val.technical_details.all_accent_scores
InRange(x) == 0 <= x /\ x <= 100 * Pt

\* C1: for a feature vector of numbers and any transcript, the five scores of
\* the breakdown, the confidence and the proficiency that analyze_accent
\* returns all lie in [0, 100], negative and very large feature values included.
C1_ScoresInRange ==
    (Done /\ AllNumbers) =>
        /\ HasBreakdown
        /\ \A a \in Accents : InRange(Breakdown[a])
        /\ InRange(result.val.confidence)
        /\ InRange(result.val.english_proficiency)

\* a call with a negative duration, a very large tempo and a very large
\* pitch_std has returned, and the weighted score of an accent was negative
C1_Witness ==
    /\ Done /\ AllNumbers
    /\ Get(audio_features, "duration") < 0
    /\ Get(audio_features, "tempo") = VeryLarge
    /\ Get(audio_features, "pitch_std") = VeryLarge
    /\ \E a \in Accents :
           QualityWeighted(PercentageScore(a, audio_features, Transcription), audio_features) < 0

ResultKeys ==
    { "accent", "confidence", "english_proficiency", "summary", "transcription",
      "technical_details" }

\* C2: analyze_accent never raises: whatever the audio_features argument
\* (complete, without entries, with a value that is no number, no mapping)
\* and however recognition goes, it returns a record with exactly the keys
\* accent, confidence, english_proficiency, summary, transcription and
\* technical_details.
C2_NeverRaises ==
    Done => (result.exc = NoExc /\ DOMAIN result.val = ResultKeys)

\* a call whose audio_features is no mapping, made while recognition
\* failed, has returned
C2_Witness ==
    /\ Done
    /\ ~audio_features.mapping
    /\ TranscribeBody(audio_path).exc # NoExc
    /\ result.exc = NoExc

\* an exception was raised somewhere inside the analysis
InternalException ==
    \/ TranscribeBody(audio_path).exc # NoExc
    \/ \E a \in Accents : AccentScoreBody(a, audio_features, Transcription).exc # NoExc
    \/ ProficiencyBody(audio_features, Transcription).exc # NoExc
    \/ SummaryRaises(audio_features)
    \/ AnalyzeBody(audio_path, audio_features).exc # NoExc

\* the returned record is the sentinel for some cause
IsSentinel(r) ==
    /\ r.accent = "Unknown"
    /\ r.confidence = 0
    /\ r.english_proficiency = 0
    /\ r.transcription = ""
    /\ DOMAIN r.technical_details = { "error" }
    /\ r.summary = "Analysis failed: " \o r.technical_details.error

Position(a) == CHOOSE i \in 1..Len(AccentOrder) : AccentOrder[i] = a

\* C4: the primary accent has the maximal score of the breakdown; among the
\* accents that share the maximum it is the first in the order American,
\* British, Australian, Canadian, Indian; the confidence is its score.
C4_PrimaryIsFirstMaximum ==
    HasBreakdown =>
        LET primary == result.val.accent
        IN /\ primary \in Accents
           /\ \A a \in Accents : Breakdown[a] <= Breakdown[primary]
           /\ \A a \in Accents :
                  Breakdown[a] = Breakdown[primary] => Position(primary) <= Position(a)
           /\ result.val.confidence = Breakdown[primary]

\* a call has returned in which two accents share a positive maximal score
C4_Witness ==
    /\ HasBreakdown
    /\ result.val.confidence > 0
    /\ \E a, b \in Accents :
           /\ a # b
           /\ Breakdown[a] = result.val.confidence
           /\ Breakdown[b] = result.val.confidence

\* the score of an accent without the quality weighting
Undiscounted(a) ==
    IF ScoreRaises(a, audio_features) THEN 0
    ELSE Clamp(PercentageScore(a, audio_features, Transcription))

\* the duration is a number below 30 seconds
ShortAudio ==
    /\ audio_features.mapping
    /\ IsNumber(audio_features, "duration")
    /\ Get(audio_features, "duration") < 30 * Scale

\* C5: when duration < 30, the final score of every accent is at most the
\* score computed from the same sub-scores without the quality factor, and
\* strictly below it when that score is positive.
C5_QualityDiscount ==
    (Done /\ ShortAudio) =>
        /\ HasBreakdown
        /\ \A a \in Accents :
               /\ Breakdown[a] <= Undiscounted(a)
               /\ Undiscounted(a) > 0 => Breakdown[a] < Undiscounted(a)

\* a call with 0 < duration < 30 has returned a positive, discounted score
C5_Witness ==
    /\ HasBreakdown /\ ShortAudio
    /\ Get(audio_features, "duration") > 0
    /\ \E a \in Accents : 0 < Breakdown[a] /\ Breakdown[a] < Undiscounted(a)

\* C6: in _calculate_accent_score every sub-score stays within its cap
\* (tempo 20, pitch variation 25, spectral 20, speech rate 15, lexical 20)
\* and their sum never exceeds the sum of the caps, 100.
C6_SubScoresWithinCaps ==
    (Done /\ AllNumbers) =>
        \A a \in Accents :
            /\ 0 <= TempoScore(a, audio_features)
            /\ TempoScore(a, audio_features) <= 20 * Pt
            /\ 0 <= PitchScore(a, audio_features)
            /\ PitchScore(a, audio_features) <= 25 * Pt
            /\ 0 <= SpectralScore(a, audio_features)
            /\ SpectralScore(a, audio_features) <= 20 * Pt
            /\ 0 <= SpeechRateScore(a, audio_features)
            /\ SpeechRateScore(a, audio_features) <= 15 * Pt
            /\ 0 <= LexicalScore(a, Transcription)
            /\ LexicalScore(a, Transcription) <= 20 * Pt
            /\ RawScore(a, audio_features, Transcription) <= 100 * Pt
            /\ RawScore(a, audio_features, Transcription) <= max_score

\* a call has returned in which one accent earned the full tempo, pitch,
\* spectral and speech-rate credit and a positive lexical credit
C6_Witness ==
    /\ Done /\ AllNumbers
    /\ \E a \in Accents :
           /\ TempoScore(a, audio_features) = 20 * Pt
           /\ PitchScore(a, audio_features) = 25 * Pt
           /\ SpectralScore(a, audio_features) = 15 * Pt
           /\ SpeechRateScore(a, audio_features) = 15 * Pt
           /\ LexicalScore(a, Transcription) > 0

\* the final score from the tempo, pitch, spectral and speech-rate sub-scores alone
AcousticOnlyScore(a) ==
    Clamp(QualityWeighted(
              ((TempoScore(a, audio_features) + PitchScore(a, audio_features)
                  + SpectralScore(a, audio_features) + SpeechRateScore(a, audio_features))
                 * 100) \div (max_score \div Pt),
              audio_features))

\* C7: with the empty transcript scoring does not raise and the lexical
\* sub-score adds nothing: every accent's score is the score from the tempo,
\* pitch, spectral and speech-rate sub-scores alone.
C7_EmptyTranscriptNoLexical ==
    (Done /\ AllNumbers /\ Transcription = "") =>
        /\ HasBreakdown
        /\ \A a \in Accents :
               /\ AccentScoreBody(a, audio_features, Transcription).exc = NoExc
               /\ Breakdown[a] = AcousticOnlyScore(a)

\* a call with the empty transcript has returned a positive score
C7_Witness ==
    /\ HasBreakdown /\ AllNumbers
    /\ Transcription = ""
    /\ result.val.confidence > 0

ExampleFeatures == [ mapping |-> TRUE, nonnum |-> {}, val |-> GoodVector ]

\* the call of the example: tempo 150, pitch_std 60, speech_rate 5, duration 40,
\* mfcc_1_mean 1, mfcc_2_mean -1, transcript "can't dance in the bath"
ExampleCall ==
    /\ audio_features = ExampleFeatures
    /\ Transcription = ExampleTranscript

\* C9: in the example the British score is strictly greater than the American
\* score; British earns the 25 points of pitch variation and American none.
C9_ExampleBritishBeatsAmerican ==
    (Done /\ ExampleCall) =>
        /\ HasBreakdown
        /\ Breakdown["British"] > Breakdown["American"]
        /\ PitchScore("British", audio_features) = 25 * Pt
        /\ PitchScore("American", audio_features) = 0

\* the call of the example has returned: British 63, American 55
C9_Witness ==
    /\ HasBreakdown /\ ExampleCall
    /\ Breakdown["British"] = 63 * Pt
    /\ Breakdown["American"] = 55 * Pt
    /\ result.val.accent = "British"

\* the duration is the number 0
ZeroDuration ==
    /\ audio_features.mapping
    /\ IsNumber(audio_features, "duration")
    /\ Get(audio_features, "duration") = 0

\* C10: with duration 0 the quality factor is 0, every accent's final score
\* is 0 whatever its sub-scores, the primary accent is American and the
\* confidence is 0.
C10_ZeroDuration ==
    (Done /\ ZeroDuration) =>
        /\ QualityFactor(audio_features) = 0
        /\ HasBreakdown
        /\ \A a \in Accents : Breakdown[a] = 0
        /\ result.val.accent = "American"
        /\ result.val.confidence = 0

\* a call with duration 0 has returned in which Indian alone had the
\* greatest sum of sub-scores
C10_Witness ==
    /\ HasBreakdown /\ ZeroDuration /\ AllNumbers
    /\ \A a \in Accents \ { "Indian" } :
           RawScore(a, audio_features, Transcription)
               < RawScore("Indian", audio_features, Transcription)

(***************************************************************************)
(* generate_report (src/app.py).  The report is kept as the sequence of    *)
(* its lines.  A number of the result is in units of 1/Pt; the format      *)
(* specification .1f turns it into a decimal text with one decimal.        *)
(***************************************************************************)
RECURSIVE NatToStr(_)
\* the decimal digits of a natural number
NatToStr(n) ==
    IF n < 10 THEN CharAt(Digits, n + 1)
    ELSE NatToStr(n \div 10) \o CharAt(Digits, (n % 10) + 1)

\* the tenths in x, the rest dropped
TruncateToTenths(x) == x \div (Pt \div 10)

\* the tenths nearest to x, a tie going to the even one
RoundToTenths(x) ==
    LET unit == Pt \div 10
        q == x \div unit
        r == x % unit
    IN IF 2 * r > unit \/ (2 * r = unit /\ q % 2 = 1) THEN q + 1 ELSE q

\* f"{x:.1f}"
FormatOneDecimal(x) ==
    LET tenths == Abs(RoundToTenths(x))
    IN (IF x < 0 THEN "-" ELSE "") \o NatToStr(tenths \div 10) \o "." \o NatToStr(tenths % 10)

\* the keys of technical_details in the order the analyzer inserted them
TechnicalKeys(r) ==
    IF r.accent = "Unknown" /\ DOMAIN r.technical_details = { "error" }
    THEN << "error" >>
    ELSE << "all_accent_scores", "transcription_length", "audio_duration", "speech_rate",
            "pitch_mean", "tempo" >>

\* the lines  f"{key}: {value}"; the text of the value is left out
TechnicalLines(r) == [ i \in 1..Len(TechnicalKeys(r)) |-> TechnicalKeys(r)[i] \o ": " ]

\* generate_report(result), called at the time now
GenerateReport(r, now) ==
    << "",
       "ACCENT ANALYSIS REPORT",
       "=====================",
       "",
       "Generated: " \o now,
       "",
       "RESULTS SUMMARY",
       "--------------",
       "Detected Accent: " \o r.accent,
       "Confidence Score: " \o FormatOneDecimal(r.confidence) \o "%",
       "English Proficiency: " \o FormatOneDecimal(r.english_proficiency) \o "%",
       "",
       "ANALYSIS DETAILS",
       "---------------",
       r.summary,
       "",
       "TECHNICAL INFORMATION",
       "--------------------" >>
    \o TechnicalLines(r)
    \o << "",
          "HIRING EVALUATION NOTES",
          "----------------------",
          "- High confidence scores (80%+) indicate reliable accent classification",
          "- Medium confidence scores (60-79%) suggest accent may have mixed characteristics",
          "- Low confidence scores (<60%) may indicate unclear audio or mixed accents",
          "- Consider audio quality and speaking pace when interpreting results",
          "",
          "This analysis is intended as a supplementary tool for hiring evaluation.",
          "Final decisions should incorporate multiple assessment methods." >>

\* the times at which a report is generated
Timestamps == { "2024-01-01 00:00:00", "2025-12-31 23:59:59" }

\* durations that give the confidence many different decimals
ReportDurations ==
    { 0, 1, (75 * Scale) \div 10, 10 * Scale, (2999 * Scale) \div 100, 40 * Scale }

\* the calls whose results are reported
ReportCalls ==
    ({ Heard(t) : t \in { "", "Can't", "mate.", ExampleTranscript } }
         \X { [ mapping |-> TRUE, nonnum |-> {},
                val |-> ("tempo" :> t) @@ ("pitch_std" :> p) @@ ("duration" :> d) @@ m ] :
                t \in { 125 * Scale, 150 * Scale }, p \in { 30 * Scale, 60 * Scale },
                d \in ReportDurations, m \in SpectralPatterns })
    \cup ({ Heard("Can't") } \X MalformedFeatures)

InitReport ==
    /\ accent_features = AccentFeaturesInit
    /\ pc = "ready"
    /\ \E call \in ReportCalls : audio_path = call[1] /\ audio_features = call[2]
    /\ result = NoResult
    /\ calls = 0
    /\ earlier = NoCall
    /\ RestIdle

\* report_data = generate_report(result) of display_results
Report ==
    /\ pc = "done"
    /\ result.exc = NoExc
    /\ \E now \in Timestamps : report' = GenerateReport(result.val, now)
    /\ pc' = "reported"
    /\ UNCHANGED << accent_features, audio_path, audio_features, result, calls, earlier,
                    jobvars, transcribevars, sub_scores, segmentvars, english_score >>

NextReport == Analyze \/ Report

SpecReport == InitReport /\ [][NextReport]_vars

\* the report has been generated
Reported == pc = "reported"

\* the position of the first line of the report that is text, 0 if there is none
LineOf(text) ==
    IF \E i \in 1..Len(report) : report[i] = text
    THEN CHOOSE i \in 1..Len(report) : report[i] = text /\ \A j \in 1..(i - 1) : report[j] # text
    ELSE 0

\* the lines of the results-summary section: after its heading, before the next one
ResultsSummary ==
    { report[i] : i \in { j \in 1..Len(report) :
                            /\ LineOf("RESULTS SUMMARY") > 0
                            /\ LineOf("RESULTS SUMMARY") < j
                            /\ j < LineOf("ANALYSIS DETAILS") } }

\* s begins with prefix
StartsWith(s, prefix) == Len(s) >= Len(prefix) /\ SubSeq(s, 1, Len(prefix)) = prefix

\* what follows the prefix in s
After(s, prefix) == SubSeq(s, Len(prefix) + 1, Len(s))

\* s is a natural number in decimal digits
IsDigits(s) == Len(s) > 0 /\ \A i \in 1..Len(s) : CharAt(s, i) \in CharsOf(Digits)

\* the value of the digit c
DigitValue(c) == CHOOSE d \in 0..9 : CharAt(Digits, d + 1) = c

RECURSIVE StrToNat(_)
\* the natural number s is the decimal text of
StrToNat(s) ==
    IF Len(s) = 0 THEN 0
    ELSE 10 * StrToNat(SubSeq(s, 1, Len(s) - 1)) + DigitValue(CharAt(s, Len(s)))

\* s is a percentage with exactly one decimal: digits, a point, one digit, "%"
IsOneDecimalPercent(s) ==
    /\ Len(s) >= 4
    /\ IsDigits(SubSeq(s, 1, Len(s) - 3))
    /\ CharAt(s, Len(s) - 2) = "."
    /\ IsDigits(CharAt(s, Len(s) - 1))
    /\ CharAt(s, Len(s)) = "%"

\* the tenths a one-decimal percentage stands for
TenthsOf(s) == 10 * StrToNat(SubSeq(s, 1, Len(s) - 3)) + StrToNat(CharAt(s, Len(s) - 1))

\* C11: for every result of analyze_accent, normal or sentinel, the results
\* summary of the report has a line with the primary accent label unchanged
\* and a line with the confidence as a one-decimal number that is nearest to
\* it (at most half a tenth away).
C11_ReportShowsAccentAndConfidence ==
    Reported =>
        /\ \E line \in ResultsSummary :
               /\ StartsWith(line, "Detected Accent: ")
               /\ After(line, "Detected Accent: ") = result.val.accent
        /\ \E line \in ResultsSummary :
               /\ StartsWith(line, "Confidence Score: ")
               /\ LET number == After(line, "Confidence Score: ")
                  IN /\ IsOneDecimalPercent(number)
                     /\ 2 * Abs(TenthsOf(number) * (Pt \div 10) - result.val.confidence)
                            <= Pt \div 10

\* a report of a normal result whose confidence is shown rounded up
C11_Witness ==
    /\ Reported
    /\ result.val.accent \in Accents
    /\ result.val.confidence % (Pt \div 10) # 0
    /\ 2 * (result.val.confidence % (Pt \div 10)) > Pt \div 10
    /\ "Confidence Score: " \o FormatOneDecimal(result.val.confidence) \o "%" \in ResultsSummary

(***************************************************************************)
(* _estimate_speech_segments (src/audio_processor.py).  The waveform is    *)
(* given by the energies of its frames, frame_energy, in frame order.      *)
(* Frames are numbered from 0 as in the code; a segment is a pair          *)
(* << start_frame, end_frame >> with the end exclusive.                    *)
(***************************************************************************)
RECURSIVE Sum(_)
Sum(q) == IF Len(q) = 0 THEN 0 ELSE Head(q) + Sum(Tail(q))

\* frame_energy > np.mean(frame_energy) * 0.3, frame by frame
SpeechFrames(frame_energy) ==
    [ k \in 1..Len(frame_energy) |->
        10 * Len(frame_energy) * frame_energy[k] > 3 * Sum(frame_energy) ]

\* SegmentLoop without  if in_speech: segments.append(...)  after the loop
RECURSIVE SegmentLoopOpenEnded(_, _, _, _, _)
SegmentLoopOpenEnded(speech_frames, i, in_speech, start_frame, segments) ==
    IF i >= Len(speech_frames) THEN segments
    ELSE LET is_speech == speech_frames[i + 1]
         IN IF is_speech /\ ~in_speech
            THEN SegmentLoopOpenEnded(speech_frames, i + 1, TRUE, i, segments)
            ELSE IF ~is_speech /\ in_speech
            THEN SegmentLoopOpenEnded(speech_frames, i + 1, FALSE, start_frame,
                                      Append(segments, << start_frame, i >>))
            ELSE SegmentLoopOpenEnded(speech_frames, i + 1, in_speech, start_frame, segments)

\* for i, is_speech in enumerate(speech_frames): ...  and the closing of the
\* last segment
RECURSIVE SegmentLoop(_, _, _, _, _)
SegmentLoop(speech_frames, i, in_speech, start_frame, segments) ==
    IF i >= Len(speech_frames)
    THEN IF in_speech THEN Append(segments, << start_frame, Len(speech_frames) >>)
         ELSE segments
    ELSE LET is_speech == speech_frames[i + 1]
         IN IF is_speech /\ ~in_speech
            THEN SegmentLoop(speech_frames, i + 1, TRUE, i, segments)
            ELSE IF ~is_speech /\ in_speech
            THEN SegmentLoop(speech_frames, i + 1, FALSE, start_frame,
                             Append(segments, << start_frame, i >>))
            ELSE SegmentLoop(speech_frames, i + 1, in_speech, start_frame, segments)

\* the try block of _estimate_speech_segments
SegmentsBody(frame_energy) == SegmentLoop(SpeechFrames(frame_energy), 0, FALSE, 0, << >>)

\* _estimate_speech_segments: y is [raises, frame_energy]; any exception
\* (raises) becomes []
EstimateSpeechSegments(y) == IF y.raises THEN << >> ELSE SegmentsBody(y.frame_energy)

(***************************************************************************)
(* extract_features (src/audio_processor.py).  wav stands for the audio    *)
(* file and what librosa makes of it: fail names the library step that     *)
(* raises or is "none"; len_y is the number of samples loaded; measured    *)
(* holds the statistics numpy computes from librosa's arrays; pitch_values *)
(* are the pitches (Hz) of the voiced frames; y gives the frame energies.  *)
(***************************************************************************)
\* the steps of extract_features that call the library, in the order of the code
ExtractionSteps ==
    << "load", "spectral_centroid", "mfcc", "chroma_stft", "spectral_rolloff",
       "zero_crossing_rate", "beat_track", "piptrack", "rms", "spectral_bandwidth" >>

RECURSIVE SqrtBetween(_, _, _)
\* the largest k in lo..hi with k * k <= n
SqrtBetween(n, lo, hi) ==
    IF lo >= hi THEN lo
    ELSE LET mid == (lo + hi + 1) \div 2
         IN IF mid * mid <= n THEN SqrtBetween(n, mid, hi) ELSE SqrtBetween(n, lo, mid - 1)

IntSqrt(n) == SqrtBetween(n, 0, Min(n, 46340))

\* np.mean(pitch_values)
PitchMean(pitch_values) == (Sum(pitch_values) * Scale) \div Len(pitch_values)

\* np.std(pitch_values)
PitchStd(pitch_values) ==
    LET deviations == [ k \in 1..Len(pitch_values) |->
                          (pitch_values[k] * Scale - PitchMean(pitch_values))
                              * (pitch_values[k] * Scale - PitchMean(pitch_values)) ]
    IN IntSqrt(Sum(deviations) \div Len(pitch_values))

\* np.max(pitch_values) - np.min(pitch_values)
PitchRange(pitch_values) ==
    LET values == SeqToSet(pitch_values)
    IN (CHOOSE hi \in values : \A v \in values : v <= hi) * Scale
       - (CHOOSE lo \in values : \A v \in values : lo <= v) * Scale

\* the entries of features that extract_features computes itself
ComputedEntries(wav, sr) ==
    LET duration == (wav.len_y * Scale) \div sr
        speech_segments == EstimateSpeechSegments(wav.y)
    IN (IF Len(wav.pitch_values) > 0
        THEN ("pitch_mean" :> PitchMean(wav.pitch_values))
                 @@ ("pitch_std" :> PitchStd(wav.pitch_values))
                 @@ ("pitch_range" :> PitchRange(wav.pitch_values))
        ELSE ("pitch_mean" :> 0) @@ ("pitch_std" :> 0) @@ ("pitch_range" :> 0))
       @@ ("duration" :> duration)
       @@ ("sample_rate" :> sr * Scale)
       @@ ("audio_length" :> wav.len_y * Scale)
       @@ ("speech_rate" :>
               IF duration > 0 THEN (Len(speech_segments) * Scale * Scale) \div duration
               ELSE 0)

\* the try block of extract_features
ExtractFeaturesBody(wav, sr) ==
    IF wav.fail # "none" THEN Raised(wav.fail)
    ELSE Returned([ mapping |-> TRUE, nonnum |-> {},
                    val |-> wav.measured @@ ComputedEntries(wav, sr) ])

\* the entries set before the step that raises
RECURSIVE StepsBefore(_, _)
StepsBefore(step, i) ==
    IF i > Len(ExtractionSteps) \/ ExtractionSteps[i] = step THEN {}
    ELSE { ExtractionSteps[i] } \cup StepsBefore(step, i + 1)

\* the library step that yields an entry of measured
StepOf(key) ==
    CASE key \in { "spectral_centroid_mean", "spectral_centroid_std" } -> "spectral_centroid"
      [] key \in { "chroma_mean", "chroma_std" } -> "chroma_stft"
      [] key \in { "rolloff_mean", "rolloff_std" } -> "spectral_rolloff"
      [] key \in { "zcr_mean", "zcr_std" } -> "zero_crossing_rate"
      [] key = "tempo" -> "beat_track"
      [] key \in { "rms_mean", "rms_std" } -> "rms"
      [] key \in { "bandwidth_mean", "bandwidth_std" } -> "spectral_bandwidth"
      [] OTHER -> "mfcc"

\* extract_features that absorbs a failure: the entries computed before the
\* failing step, 0 for every other one
ExtractFeaturesPartial(wav, sr) ==
    LET body == ExtractFeaturesBody(wav, sr)
        done == StepsBefore(wav.fail, 1)
    IN IF body.exc # NoExc
       THEN Returned([ mapping |-> TRUE, nonnum |-> {},
                       val |-> [ key \in DOMAIN wav.measured
                                           \cup DOMAIN ComputedEntries(wav, sr) |->
                                   IF key \in DOMAIN wav.measured /\ StepOf(key) \in done
                                   THEN wav.measured[key] ELSE 0 ] ])
       ELSE body

\* extract_features: any exception is raised again as
\* Exception("Feature extraction failed: ...")
ExtractFeatures(wav, sr) ==
    LET body == ExtractFeaturesBody(wav, sr)
    IN IF body.exc # NoExc THEN Raised("Feature extraction failed: " \o body.exc) ELSE body

(***************************************************************************)
(* Files.  A path is [dir, name]; the file system is the set dirs of       *)
(* temporary directories and the set files of paths that exist.            *)
(***************************************************************************)
\* os.path.join(dir, name) for a name without separator
Join(dir, name) == [ dir |-> dir, name |-> name ]

\* os.path.dirname(path)
Dirname(path) == path.dir

\* os.listdir(dir)
Listdir(fs, dir) == { f.name : f \in { g \in fs : g.dir = dir } }

\* what leaving  with tempfile.TemporaryDirectory()  removes from the files
Cleanup(fs, dir) == { f \in fs : f.dir # dir }

\* the directory tempfile.TemporaryDirectory() creates for the n-th job
TempDir(n) == "/tmp/tmp" \o NatToStr(n)

\* s.endswith(suffix)
EndsWith(s, suffix) ==
    Len(s) >= Len(suffix) /\ SubSeq(s, Len(s) - Len(suffix) + 1, Len(s)) = suffix

(***************************************************************************)
(* download_video (src/video_downloader.py).  d stands for what yt-dlp     *)
(* does with the url: info is "ok", "none" (no information), or the        *)
(* exception extract_info raises; duration, title and ext are entries of   *)
(* the information; download is "ok" or the exception ydl.download raises; *)
(* written are the names of the files yt-dlp leaves in the output          *)
(* directory.                                                              *)
(***************************************************************************)
\* c.isalnum() or c in (' ', '-', '_')
KeptInTitle(c) == c \in WordCharSet \cup { " ", "-" }

RECURSIVE FilterTitle(_, _)
FilterTitle(title, i) ==
    IF i > Len(title) THEN ""
    ELSE (IF KeptInTitle(CharAt(title, i)) THEN CharAt(title, i) ELSE "")
         \o FilterTitle(title, i + 1)

RECURSIVE RStrip(_)
\* s.rstrip()
RStrip(s) ==
    IF Len(s) > 0 /\ IsSpace(CharAt(s, Len(s))) THEN RStrip(SubSeq(s, 1, Len(s) - 1)) ELSE s

\* safe_title
SafeTitle(title) == RStrip(FilterTitle(title, 1))

\* file.lower().endswith(('.mp4', '.mkv', '.webm', '.avi', '.mov'))
IsVideoFile(name) ==
    \E suffix \in { ".mp4", ".mkv", ".webm", ".avi", ".mov" } : EndsWith(StrLower(name), suffix)

\* the files after ydl.download, which runs when the information was
\* extracted and the video is not too long
FilesAfterDownload(d, output_dir, fs) ==
    IF d.info = "ok" /\ d.duration <= 1800
    THEN fs \cup { Join(output_dir, name) : name \in d.written }
    ELSE fs

\* what download_video can do: the except clauses wrap every exception; the
\* first video file of os.listdir is any of the video files
DownloadVideoResults(d, output_dir, fs) ==
    LET expected_path == Join(output_dir, SafeTitle(d.title) \o "." \o d.ext)
        video_files == { Join(output_dir, name) :
                           name \in { n \in Listdir(fs, output_dir) : IsVideoFile(n) } }
    IN CASE d.info = "DownloadError" -> { Raised("Download failed: " \o d.info) }
         [] d.info = "none" ->
                { Raised("Video download error: Could not extract video information") }
         [] d.info # "ok" -> { Raised("Video download error: " \o d.info) }
         [] d.duration > 1800 ->
                { Raised("Video download error: Video is too long (max 30 minutes allowed)") }
         [] d.download = "DownloadError" -> { Raised("Download failed: " \o d.download) }
         [] d.download # "ok" -> { Raised("Video download error: " \o d.download) }
         [] expected_path \in fs -> { Returned(expected_path) }
         [] video_files # {} -> { Returned(path) : path \in video_files }
         [] OTHER -> { Raised("Video download error: Downloaded video file not found") }

(***************************************************************************)
(* extract_audio (src/audio_processor.py).  video is what pydub does with  *)
(* the video file: "ok", or the step that raises: "from_file" before       *)
(* anything is written, "export" after the output file was created.        *)
(***************************************************************************)
\* the audio file in a directory shared by all jobs
AudioPathShared(path) == Join("/tmp", "extracted_audio.wav")

\* temp_dir = os.path.dirname(video_path); os.path.join(temp_dir, "extracted_audio.wav")
AudioPath(path) == Join(Dirname(path), "extracted_audio.wav")

\* the files after extract_audio
FilesAfterExtractAudio(video, path, fs) ==
    IF video \in { "ok", "export" } THEN fs \cup { AudioPath(path) } ELSE fs

\* extract_audio: any exception is raised again as
\* Exception("Audio extraction failed: ...")
ExtractAudio(video, path) ==
    IF video = "ok" THEN Returned(AudioPath(path))
    ELSE Raised("Audio extraction failed: " \o video)

(***************************************************************************)
(* main (src/app.py): the job a click on the analysis button starts.  The  *)
(* job's steps are taken one after the other; the step at which the job    *)
(* leaves the with block also removes the temporary directory, shows the   *)
(* error and runs the finally clause.                                      *)
(***************************************************************************)
\* jobs started in one session
MaxJobs == 2

\* what yt-dlp does with the urls of the jobs
GoodDownload ==
    [ info |-> "ok", duration |-> 600, download |-> "ok", title |-> "talk", ext |-> "mp4",
      written |-> { "talk.mp4" } ]

Downloads ==
    { GoodDownload,
      [ GoodDownload EXCEPT !.title = "My talk: part 1 ", !.written = { "My talk - part 1 .mp4" } ],
      [ GoodDownload EXCEPT !.written = { "talk.f136.MP4", "talk.f251.webm" } ],
      [ GoodDownload EXCEPT !.written = { "talk.m4a" } ],
      [ GoodDownload EXCEPT !.info = "none" ],
      [ GoodDownload EXCEPT !.info = "DownloadError" ],
      [ GoodDownload EXCEPT !.info = "KeyError" ],
      [ GoodDownload EXCEPT !.duration = 1801 ],
      [ GoodDownload EXCEPT !.download = "DownloadError", !.written = { "talk.mp4.part" } ],
      [ GoodDownload EXCEPT !.download = "OSError", !.written = {} ] }

\* what pydub does with the video files
Videos == { "ok", "from_file", "export" }

\* the audio files and what librosa makes of them
GoodWav ==
    [ fail |-> "none",
      len_y |-> 40 * 22050,
      measured |-> ("tempo" :> 150 * Scale) @@ ("mfcc_1_mean" :> 1 * Scale)
                       @@ ("mfcc_2_mean" :> -1 * Scale) @@ ("rms_mean" :> (6 * Scale) \div 100)
                       @@ ("zcr_mean" :> (50 * Scale) \div 100)
                       @@ ("spectral_centroid_mean" :> 2000 * Scale),
      pitch_values |-> << 120, 180, 240 >>,
      y |-> [ raises |-> FALSE, frame_energy |-> << 0, 9, 9, 0, 9 >> ] ]

Wavs ==
    { [ GoodWav EXCEPT !.fail = step ] : step \in SeqToSet(ExtractionSteps) \cup { "none" } }
    \cup { [ GoodWav EXCEPT !.len_y = n, !.pitch_values = pv, !.y = y ] :
             n \in { 0, 15 * 22050 },
             pv \in { << >>, << 200 >> },
             y \in { [ raises |-> TRUE, frame_energy |-> << >> ],
                     [ raises |-> FALSE, frame_energy |-> << >> ],
                     [ raises |-> FALSE, frame_energy |-> << 4, 4, 0 >> ] } }

\* what the recognizers do with the audio files
Speeches ==
    { Heard(ExampleTranscript), Heard("Can't"),
      [ fail |-> "open", google |-> "text", sphinx |-> "text", text |-> "",
        sphinx_text |-> "" ] }

\* the options of the sample rate selectbox
SampleRates == { 16000, 22050, 44100 }

\* the environments of the jobs
Jobs ==
    { [ download |-> d, video |-> v, wav |-> w, speech |-> sp, sample_rate |-> sr ] :
        d \in Downloads, v \in { "ok" }, w \in { GoodWav }, sp \in { Heard("Can't") },
        sr \in { 22050 } }
    \cup { [ download |-> d, video |-> v, wav |-> w, speech |-> sp, sample_rate |-> sr ] :
             d \in { GoodDownload }, v \in Videos, w \in { GoodWav }, sp \in { Heard("Can't") },
             sr \in { 22050 } }
    \cup { [ download |-> d, video |-> v, wav |-> w, speech |-> sp, sample_rate |-> sr ] :
             d \in { GoodDownload }, v \in { "ok" }, w \in Wavs, sp \in { Heard("Can't") },
             sr \in SampleRates }
    \cup { [ download |-> d, video |-> v, wav |-> w, speech |-> sp, sample_rate |-> sr ] :
             d \in { GoodDownload }, v \in { "ok" }, w \in { GoodWav }, sp \in Speeches,
             sr \in { 22050 } }

\* the analyzer is not called on its own
AnalyzerIdle ==
    /\ accent_features = AccentFeaturesInit
    /\ pc = "idle"
    /\ audio_path = Heard("")
    /\ audio_features = NotAMapping
    /\ result = NoResult
    /\ calls = 0
    /\ earlier = NoCall

analyzervars == << accent_features, pc, audio_path, audio_features, result, calls, earlier >>

InitJob == AnalyzerIdle /\ RestIdle

\* the temporary directory of the running job
temp_dir == TempDir(jobs)

\* the job leaves the with block by an exception: the directory is removed,
\* the except clause shows the error, the finally clause resets processing
JobRaises(message, fs) ==
    /\ dirs' = dirs \ { temp_dir }
    /\ files' = Cleanup(fs, temp_dir)
    /\ shown' = "Error during processing: " \o message
    /\ processing' = FALSE
    /\ stage' = "ended"

\* the job leaves the with block by  return  after st.error(message)
JobReturns(message, fs) ==
    /\ dirs' = dirs \ { temp_dir }
    /\ files' = Cleanup(fs, temp_dir)
    /\ shown' = message
    /\ processing' = FALSE
    /\ stage' = "ended"

\* Click without  st.session_state.analysis_result = None : the result of the
\* job before stays stored while the new job runs
ClickKeepingResult ==
    /\ stage \in { "idle", "ended" }
    /\ ~processing
    /\ jobs < MaxJobs
    /\ \E j \in Jobs : job' = j
    /\ processing' = TRUE
    /\ shown' = ""
    /\ jobs' = jobs + 1
    /\ dirs' = dirs \cup { TempDir(jobs + 1) }
    /\ video_path' = NoPath
    /\ wav_path' = NoPath
    /\ extracted' = NotExtracted
    /\ stage' = "download"
    /\ completed' = << >>
    /\ stored_before' = (analysis_result # None)
    /\ UNCHANGED << analysis_result, files, report, analyzervars, transcribevars, sub_scores,
                    segmentvars, english_score >>

\* if analyze_button and video_url: ... up to the creation of the temporary
\* directory
Click ==
    /\ stage \in { "idle", "ended" }
    /\ ~processing
    /\ jobs < MaxJobs
    /\ \E j \in Jobs : job' = j
    /\ processing' = TRUE
    /\ analysis_result' = None
    /\ shown' = ""
    /\ jobs' = jobs + 1
    /\ dirs' = dirs \cup { TempDir(jobs + 1) }
    /\ video_path' = NoPath
    /\ wav_path' = NoPath
    /\ extracted' = NotExtracted
    /\ stage' = "download"
    /\ completed' = << >>
    /\ stored_before' = (analysis_result # None)
    /\ UNCHANGED << files, report, analyzervars, transcribevars, sub_scores, segmentvars,
                    english_score >>

\* video_path = downloader.download_video(video_url, temp_dir)
Download ==
    /\ stage = "download"
    /\ LET fs == FilesAfterDownload(job.download, temp_dir, files)
       IN \E r \in DownloadVideoResults(job.download, temp_dir, fs) :
              IF r.exc # NoExc
              THEN JobRaises(r.exc, fs) /\ UNCHANGED << video_path, completed >>
              ELSE IF r.val = NoPath
              THEN /\ JobReturns("Failed to download video. Please check the URL and try again.", fs)
                   /\ video_path' = r.val
                   /\ UNCHANGED completed
              ELSE /\ video_path' = r.val
                   /\ files' = fs
                   /\ stage' = "extract_audio"
                   /\ completed' = Append(completed, "download")
                   /\ UNCHANGED << dirs, shown, processing >>
    /\ UNCHANGED << analysis_result, job, wav_path, extracted, jobs, stored_before, report,
                    analyzervars, transcribevars, sub_scores, segmentvars, english_score >>

\* audio_path = audio_processor.extract_audio(video_path, max_duration * 60)
ExtractAudioStep ==
    /\ stage = "extract_audio"
    /\ LET fs == FilesAfterExtractAudio(job.video, video_path, files)
           r == ExtractAudio(job.video, video_path)
       IN IF r.exc # NoExc
          THEN JobRaises(r.exc, fs) /\ UNCHANGED << wav_path, completed >>
          ELSE IF r.val = NoPath
          THEN /\ JobReturns("Failed to extract audio from video.", fs)
               /\ wav_path' = r.val
               /\ UNCHANGED completed
          ELSE /\ wav_path' = r.val
               /\ files' = fs
               /\ stage' = "extract_features"
               /\ completed' = Append(completed, "extract_audio")
               /\ UNCHANGED << dirs, shown, processing >>
    /\ UNCHANGED << analysis_result, job, video_path, extracted, jobs, stored_before, report,
                    analyzervars, transcribevars, sub_scores, segmentvars, english_score >>

\* FeaturesStep in which a failure of extract_features is handed to the
\* analyzer as missing features
FeaturesStepAbsorbing ==
    /\ stage = "extract_features"
    /\ LET r == ExtractFeatures(job.wav, job.sample_rate)
       IN /\ extracted' = IF r.exc # NoExc THEN Returned(NotAMapping) ELSE r
          /\ stage' = "analyze"
          /\ completed' = Append(completed, "extract_features")
          /\ UNCHANGED << dirs, files, shown, processing >>
    /\ UNCHANGED << analysis_result, job, video_path, wav_path, jobs, stored_before, report,
                    analyzervars, transcribevars, sub_scores, segmentvars, english_score >>

\* audio_features = audio_processor.extract_features(audio_path)
FeaturesStep ==
    /\ stage = "extract_features"
    /\ LET r == ExtractFeatures(job.wav, job.sample_rate)
       IN /\ extracted' = r
          /\ IF r.exc # NoExc
             THEN JobRaises(r.exc, files) /\ UNCHANGED completed
             ELSE /\ stage' = "analyze"
                  /\ completed' = Append(completed, "extract_features")
                  /\ UNCHANGED << dirs, files, shown, processing >>
    /\ UNCHANGED << analysis_result, job, video_path, wav_path, jobs, stored_before, report,
                    analyzervars, transcribevars, sub_scores, segmentvars, english_score >>

\* analysis_result = analyzer.analyze_accent(audio_path, audio_features), the
\* storing of the result, the end of the with block and the finally clause
AnalyzeStep ==
    /\ stage = "analyze"
    /\ LET r == AnalyzeAccent(job.speech, extracted.val)
       IN IF r.exc # NoExc
          THEN JobRaises(r.exc, files) /\ UNCHANGED << analysis_result, completed >>
          ELSE /\ analysis_result' = r.val
               /\ completed' = Append(completed, "analyze")
               /\ dirs' = dirs \ { temp_dir }
               /\ files' = Cleanup(files, temp_dir)
               /\ processing' = FALSE
               /\ stage' = "ended"
               /\ UNCHANGED shown
    /\ UNCHANGED << job, video_path, wav_path, extracted, jobs, stored_before, report,
                    analyzervars, transcribevars, sub_scores, segmentvars, english_score >>

NextJob == Click \/ Download \/ ExtractAudioStep \/ FeaturesStep \/ AnalyzeStep

SpecJob == InitJob /\ [][NextJob]_vars

\* a job is between its click and its end
Running == stage \notin { "idle", "ended" }

\* the job has ended
Ended == stage = "ended"

\* extract_features was called in the job
ExtractCalled == extracted # NotExtracted

\* a library step of extract_features fails on the job's audio
StepFails == job.wav.fail # "none"

C14_TemporaryFilesRemoved ==
    /\ Running =>
           /\ temp_dir \in dirs
           /\ \A f \in files : f.dir = temp_dir
           /\ video_path # NoPath => video_path \in files /\ Dirname(video_path) = temp_dir
           /\ wav_path # NoPath =>
                  wav_path \in files /\ wav_path = Join(temp_dir, "extracted_audio.wav")
    /\ ~Running => dirs = {} /\ files = {}

\* a job that ended by a failure of the audio export, after the video was
\* downloaded and the audio file created
C14_Witness ==
    /\ Ended
    /\ job.video = "export"
    /\ video_path # NoPath
    /\ shown = "Error during processing: Audio extraction failed: export"
    /\ files = {}

\* the job got as far as calling extract_features, which failed
FeatureExtractionFailed == Ended /\ wav_path # NoPath /\ StepFails

Stages == << "download", "extract_audio", "extract_features", "analyze" >>

\* a proper or improper prefix of Stages
IsStagePrefix(done) == Len(done) <= Len(Stages) /\ done = SubSeq(Stages, 1, Len(done))

\* the job ended before all four stages had completed
JobFailed == Ended /\ completed # Stages

\* C21: once the processing of a click has ended, by whichever path, the
\* processing flag is False.  The stored analysis_result is None from the
\* start of a job until download, audio extraction, feature extraction and
\* analysis have completed in that order: a result is stored only in an ended
\* job whose four stages all completed, and a failed job stores none, also
\* when the job before it had stored one.
C21_ResultOnlyAfterAllStages ==
    /\ ~Running => ~processing
    /\ Running => analysis_result = None
    /\ IsStagePrefix(completed)
    /\ analysis_result # None => Ended /\ completed = Stages
    /\ JobFailed => analysis_result = None

\* a second job fails in feature extraction after the first job had stored a
\* result
C21_Witness ==
    /\ JobFailed
    /\ jobs = 2
    /\ stored_before
    /\ completed = << "download", "extract_audio" >>
    /\ ~processing
    /\ analysis_result = None

(***************************************************************************)
(* _transcribe_audio taken statement by statement.  audio_path says what   *)
(* each library call does; attempts records the calls made, each with its  *)
(* outcome ("ok" or the exception raised).                                 *)
(***************************************************************************)
InitTranscribe ==
    /\ accent_features = AccentFeaturesInit
    /\ pc = "idle"
    /\ audio_path \in Recognitions
    /\ audio_features = NotAMapping
    /\ result = NoResult
    /\ calls = 0
    /\ earlier = NoCall
    /\ report = NoReport /\ JobIdle /\ sub_scores = NotScored /\ SegmentsIdle
    /\ english_score = NotGraded
    /\ tstep = "open"
    /\ attempts = << >>
    /\ transcribed = NotTranscribed

\* the call is recorded with its outcome
Attempt(call, outcome) == Append(attempts, [ call |-> call, outcome |-> outcome ])

\* the call returns or raises r
Leave(r) == tstep' = "returned" /\ transcribed' = r

\* no handler around the body: the exception leaves _transcribe_audio
OuterHandlerMissing(cause) == Raised(cause)

\* except Exception: return ""
OuterHandler(cause) == Returned("")

\* every error of the primary recognizer leads to the fallback recognizer
AfterGoogleAlwaysFallback(outcome) == IF outcome = "text" THEN "return text" ELSE "sphinx"

\* where recognize_google's outcome leads: return text, the handler of
\* UnknownValueError, the handler of RequestError, or the outer handler
AfterGoogle(outcome) ==
    CASE outcome = "text" -> "return text"
      [] outcome = "UnknownValueError" -> "sphinx"
      [] outcome = "RequestError" -> "return empty"
      [] OTHER -> "outer handler"

\* with sr.AudioFile(audio_path) as source
OpenAudioFile ==
    /\ tstep = "open"
    /\ IF audio_path.fail = "open"
       THEN attempts' = Attempt("AudioFile", "error") /\ Leave(OuterHandler("open"))
       ELSE attempts' = Attempt("AudioFile", "ok") /\ tstep' = "adjust" /\ UNCHANGED transcribed
    /\ UNCHANGED << analyzervars, report, jobvars, sub_scores, segmentvars, english_score >>

\* self.recognizer.adjust_for_ambient_noise(source, duration=1)
AdjustForAmbientNoise ==
    /\ tstep = "adjust"
    /\ IF audio_path.fail = "adjust"
       THEN attempts' = Attempt("adjust_for_ambient_noise", "error")
            /\ Leave(OuterHandler("adjust"))
       ELSE attempts' = Attempt("adjust_for_ambient_noise", "ok")
            /\ tstep' = "record" /\ UNCHANGED transcribed
    /\ UNCHANGED << analyzervars, report, jobvars, sub_scores, segmentvars, english_score >>

\* audio_data = self.recognizer.record(source)
Record ==
    /\ tstep = "record"
    /\ IF audio_path.fail = "record"
       THEN attempts' = Attempt("record", "error") /\ Leave(OuterHandler("record"))
       ELSE attempts' = Attempt("record", "ok") /\ tstep' = "google" /\ UNCHANGED transcribed
    /\ UNCHANGED << analyzervars, report, jobvars, sub_scores, segmentvars, english_score >>

\* text = self.recognizer.recognize_google(audio_data) and its except clauses
RecognizeGoogle ==
    /\ tstep = "google"
    /\ attempts' = Attempt("recognize_google",
                           IF audio_path.google = "text" THEN "ok" ELSE audio_path.google)
    /\ LET after == AfterGoogle(audio_path.google)
       IN CASE after = "return text" -> Leave(Returned(audio_path.text))
            [] after = "sphinx" -> tstep' = "sphinx" /\ UNCHANGED transcribed
            [] after = "return empty" -> Leave(Returned(""))
            [] OTHER -> Leave(OuterHandler(audio_path.google))
    /\ UNCHANGED << analyzervars, report, jobvars, sub_scores, segmentvars, english_score >>

\* text = self.recognizer.recognize_sphinx(audio_data) and its bare except
RecognizeSphinx ==
    /\ tstep = "sphinx"
    /\ IF audio_path.sphinx = "text"
       THEN attempts' = Attempt("recognize_sphinx", "ok")
            /\ Leave(Returned(audio_path.sphinx_text))
       ELSE attempts' = Attempt("recognize_sphinx", audio_path.sphinx)
            /\ Leave(Returned(""))
    /\ UNCHANGED << analyzervars, report, jobvars, sub_scores, segmentvars, english_score >>

NextTranscribe ==
    OpenAudioFile \/ AdjustForAmbientNoise \/ Record \/ RecognizeGoogle \/ RecognizeSphinx

SpecTranscribe == InitTranscribe /\ [][NextTranscribe]_vars

\* the call of _transcribe_audio has ended
TranscribeEnded == tstep = "returned"

\* the outcomes of the calls of a library function so far
Outcomes(call) == { attempts[i].outcome : i \in { j \in 1..Len(attempts) : attempts[j].call = call } }

\* a library call failed and no later call made up for it
FailurePath == Len(attempts) > 0 /\ attempts[Len(attempts)].outcome # "ok"

\* stepping through the statements gives what the analyzer's call gives
TranscribeStepsAgree == TranscribeEnded => transcribed = Returned(TranscribeAudio(audio_path))

\* C13: no exception escapes _transcribe_audio: whichever step fails, the
\* call returns a string; on every failure path (the call that failed was
\* the last one made: nothing was recognized) the string is empty.
C13_TranscribeNeverRaises ==
    TranscribeEnded =>
        /\ transcribed.exc = NoExc
        /\ transcribed.val \in STRING
        /\ FailurePath => transcribed.val = ""

\* the call returned after the primary recognizer raised an error that is
\* neither UnknownValueError nor RequestError
C13_Witness ==
    /\ TranscribeEnded
    /\ Outcomes("recognize_google") = { "error" }
    /\ transcribed = Returned("")

\* the recognizer calls made so far, in order
RecognizersTried ==
    LET at == { j \in 1..Len(attempts) :
                  attempts[j].call \in { "recognize_google", "recognize_sphinx" } }
    IN [ k \in 1..Cardinality(at) |->
           attempts[CHOOSE j \in at : Cardinality({ i \in at : i < j }) = k - 1].call ]

\* C16: the recognizers are tried in a fixed order, the primary first (it is
\* attempted whenever the audio was recorded).  The fallback is attempted if
\* and only if the primary raised UnknownValueError, and the result is then
\* the fallback's text, or "" if the fallback fails.  After RequestError the
\* result is "" and the fallback is not attempted; after a success of the
\* primary the result is its text and the fallback is not attempted.
C16_RecognizerOrder ==
    /\ RecognizersTried \in
           { << >>, << "recognize_google" >>, << "recognize_google", "recognize_sphinx" >> }
    /\ TranscribeEnded =>
           /\ Outcomes("record") = { "ok" } => Outcomes("recognize_google") # {}
           /\ Outcomes("recognize_sphinx") # {}
                  <=> Outcomes("recognize_google") = { "UnknownValueError" }
           /\ Outcomes("recognize_google") = { "UnknownValueError" } =>
                  transcribed = Returned(IF Outcomes("recognize_sphinx") = { "ok" }
                                         THEN audio_path.sphinx_text ELSE "")
           /\ Outcomes("recognize_google") = { "RequestError" } => transcribed = Returned("")
           /\ Outcomes("recognize_google") = { "ok" } => transcribed = Returned(audio_path.text)

\* the primary recognizer had no hypothesis and the fallback's text was returned
C16_Witness ==
    /\ TranscribeEnded
    /\ RecognizersTried = << "recognize_google", "recognize_sphinx" >>
    /\ Outcomes("recognize_google") = { "UnknownValueError" }
    /\ transcribed = Returned(audio_path.sphinx_text)
    /\ audio_path.sphinx_text # audio_path.text

(***************************************************************************)
(* The tempo and pitch sub-scores of _calculate_accent_score, computed for *)
(* every accent over a grid of tempo and pitch_std values.                 *)
(***************************************************************************)
\* tempo values: every 5 bpm from MinTempo to MaxTempo, and a hundredth
\* below and above each
MinTempo == 80
MaxTempo == 240
TempoGrid ==
    { 5 * k * Scale + e : k \in (MinTempo \div 5)..(MaxTempo \div 5), e \in { -1, 0, 1 } }

\* pitch_std values: the band limits, a hundredth around each, values between
PitchGrid ==
    { b * Scale + e : b \in { 20, 50, 80 }, e \in { -1, 0, 1 } }
    \cup { -5 * Scale, 0, 35 * Scale, 65 * Scale, 200 * Scale }

GridVectors ==
    { [ mapping |-> TRUE, nonnum |-> {}, val |-> ("tempo" :> t) @@ ("pitch_std" :> p) ] :
        t \in TempoGrid, p \in PitchGrid }

InitScore ==
    /\ accent_features = AccentFeaturesInit
    /\ pc = "ready"
    /\ audio_path = Heard("")
    /\ audio_features \in GridVectors
    /\ result = NoResult
    /\ calls = 0
    /\ earlier = NoCall
    /\ RestIdle

\* the tempo and pitch analysis of _calculate_accent_score for each accent
ScoreTempoAndPitch ==
    /\ pc = "ready"
    /\ sub_scores' = [ a \in Accents |-> [ tempo |-> TempoScore(a, audio_features),
                                           pitch |-> PitchScore(a, audio_features) ] ]
    /\ pc' = "scored"
    /\ UNCHANGED << accent_features, audio_path, audio_features, result, calls, earlier,
                    report, jobvars, transcribevars, segmentvars, english_score >>

NextScore == ScoreTempoAndPitch

SpecScore == InitScore /\ [][NextScore]_vars

\* the sub-scores have been computed
Scored == pc = "scored"

\* the midpoint of an accent's tempo range, doubled
TwiceMidpoint(a) == accent_features[a].tempo_range[1] + accent_features[a].tempo_range[2]

\* tempo lies within the accent's tempo range, bounds included
InTempoRange(a) ==
    /\ accent_features[a].tempo_range[1] <= audio_features.val["tempo"]
    /\ audio_features.val["tempo"] <= accent_features[a].tempo_range[2]

\* twice the distance of tempo from the midpoint of the accent's range
TwiceFromMidpoint(a) == Abs(2 * audio_features.val["tempo"] - TwiceMidpoint(a))

\* C17 as claimed: the tempo sub-score is 20 within the range (bounds
\* included), otherwise 10 when |tempo - midpoint| <= 30, otherwise 0.
C17_TempoHalfCreditWithin30Inclusive ==
    Scored =>
        \A a \in Accents :
            sub_scores[a].tempo =
                IF InTempoRange(a) THEN 20 * Pt
                ELSE IF TwiceFromMidpoint(a) <= 2 * 30 * Scale THEN 10 * Pt
                ELSE 0

\* C17: the tempo sub-score is exactly 20 when tempo lies within the
\* profile's tempo range (bounds included), otherwise exactly 10 when tempo
\* is less than 30 bpm from the range midpoint (|tempo - midpoint| < 30),
\* and otherwise exactly 0; at exactly 30 bpm from the midpoint it is 0.
C17_TempoHalfCreditBelow30 ==
    Scored =>
        \A a \in Accents :
            sub_scores[a].tempo =
                IF InTempoRange(a) THEN 20 * Pt
                ELSE IF TwiceFromMidpoint(a) < 2 * 30 * Scale THEN 10 * Pt
                ELSE 0

\* tempo 130 is outside the American range and exactly 30 from its midpoint
\* 160: no credit; it is within the British range: full credit; it is 25
\* from the Canadian midpoint 155: half credit
C17_Witness ==
    /\ Scored
    /\ audio_features.val["tempo"] = 130 * Scale
    /\ ~InTempoRange("American") /\ TwiceFromMidpoint("American") = 2 * 30 * Scale
    /\ sub_scores["American"].tempo = 0
    /\ sub_scores["British"].tempo = 20 * Pt
    /\ sub_scores["Canadian"].tempo = 10 * Pt

\* the pitch-variation classes and the band of each, as the claim gives them
PitchClasses == { "very_high", "high", "moderate", "low" }

InBand(class, pitch_std) ==
    CASE class = "very_high" -> pitch_std > 80 * Scale
      [] class = "high" -> 50 * Scale < pitch_std /\ pitch_std <= 80 * Scale
      [] class = "moderate" -> 20 * Scale < pitch_std /\ pitch_std <= 50 * Scale
      [] class = "low" -> pitch_std <= 20 * Scale

\* C18: for every pitch_std exactly one of the four bands matches; an accent
\* receives the 25-point pitch sub-score if and only if its profile's class
\* is the matching one, otherwise 0; accents with different classes never
\* both receive pitch credit for the same feature vector.
C18_PitchBandsPartition ==
    Scored =>
        LET pitch_std == audio_features.val["pitch_std"]
        IN /\ Cardinality({ class \in PitchClasses : InBand(class, pitch_std) }) = 1
           /\ \A a \in Accents :
                  sub_scores[a].pitch =
                      IF InBand(accent_features[a].pitch_variation, pitch_std)
                      THEN 25 * Pt ELSE 0
           /\ \A a, b \in Accents :
                  accent_features[a].pitch_variation # accent_features[b].pitch_variation
                      => ~(sub_scores[a].pitch > 0 /\ sub_scores[b].pitch > 0)

\* pitch_std just above 80: the very_high accent has the credit, the high
\* and moderate accents have none
C18_Witness ==
    /\ Scored
    /\ audio_features.val["pitch_std"] = 80 * Scale + 1
    /\ sub_scores["Indian"].pitch = 25 * Pt
    /\ sub_scores["British"].pitch = 0
    /\ sub_scores["American"].pitch = 0

(***************************************************************************)
(* The sentence bonus of _calculate_english_proficiency.                   *)
(***************************************************************************)
\* the language component with the sentence bonus given for a '.' in the
\* transcript
LanguageScoreByBoundary(transcription) ==
    IF transcription # ""
    THEN LET word_count == Len(StrSplit(transcription))
             unique_words == Cardinality(SeqToSet(StrSplit(StrLower(transcription))))
         IN (IF word_count > 10 THEN 20 ELSE 0)
            + (IF StrContains(".", transcription) THEN 10 ELSE 0)
            + (IF unique_words * 10 > word_count * 7 THEN 10 ELSE 0)
    ELSE 0

\* the proficiency of the call with the language component worth language
ProficiencyWith(language) ==
    Clamp((ClarityScore(audio_features) * 4 * Pt) \div 10
          + (FluencyScore(audio_features) * 3 * Pt) \div 10
          + (language * 3 * Pt) \div 10)

\* C19 as claimed: the +10 sentence bonus is part of the returned
\* proficiency if and only if the non-empty transcript contains a '.'; a
\* non-empty transcript without '.' does not receive it.
C19_SentenceBonusIffBoundary ==
    Done /\ AllNumbers /\ Transcription # "" =>
        result.val.english_proficiency = ProficiencyWith(LanguageScoreByBoundary(Transcription))

(***************************************************************************)
(* Calls of _estimate_speech_segments on waveforms of up to MaxFrames      *)
(* frames.                                                                 *)
(***************************************************************************)
\* frames of a waveform
MaxFrames == 5

\* the energies a frame can have
EnergyValues == { 0, 1, 10 }

RECURSIVE EnergySequences(_)
\* the sequences of exactly n energies
EnergySequences(n) ==
    IF n = 0 THEN { << >> }
    ELSE { Append(q, e) : q \in EnergySequences(n - 1), e \in EnergyValues }

Waveforms ==
    { [ raises |-> FALSE, frame_energy |-> q ] :
        q \in UNION { EnergySequences(n) : n \in 0..MaxFrames } }
    \cup { [ raises |-> TRUE, frame_energy |-> << >> ] }

InitSegments ==
    /\ accent_features = AccentFeaturesInit
    /\ pc = "ready"
    /\ audio_path = Heard("")
    /\ audio_features = NotAMapping
    /\ result = NoResult
    /\ calls = 0
    /\ earlier = NoCall
    /\ report = NoReport /\ JobIdle /\ TranscribeIdle /\ sub_scores = NotScored
    /\ english_score = NotGraded
    /\ waveform \in Waveforms
    /\ estimated = NotEstimated

\* speech_segments = self._estimate_speech_segments(y, sr)
EstimateSegments ==
    /\ pc = "ready"
    /\ estimated' = EstimateSpeechSegments(waveform)
    /\ pc' = "estimated"
    /\ UNCHANGED << accent_features, audio_path, audio_features, result, calls, earlier,
                    report, jobvars, transcribevars, sub_scores, waveform, english_score >>

NextSegments == EstimateSegments

SpecSegments == InitSegments /\ [][NextSegments]_vars

\* _estimate_speech_segments has returned for a waveform it could read
Estimated == pc = "estimated" /\ ~waveform.raises

\* the number of windows
Windows == Len(waveform.frame_energy)

\* window k (from 0) is speech: its energy exceeds 0.3 times the mean energy
IsSpeech(k) ==
    10 * Windows * waveform.frame_energy[k + 1] > 3 * Sum(waveform.frame_energy)

\* the maximal runs of consecutive speech windows, each << first, last + 1 >>
MaximalRuns ==
    { run \in (0..Windows) \X (0..Windows) :
        /\ run[1] < run[2]
        /\ \A k \in run[1]..(run[2] - 1) : IsSpeech(k)
        /\ run[1] = 0 \/ ~IsSpeech(run[1] - 1)
        /\ run[2] = Windows \/ ~IsSpeech(run[2]) }

\* the segments window k lies in
SegmentsHolding(k) ==
    { i \in 1..Len(estimated) : estimated[i][1] <= k /\ k < estimated[i][2] }

\* C20: the segments returned are exactly the maximal runs of consecutive
\* windows whose energy exceeds 0.3 x the mean energy: in increasing order,
\* pairwise disjoint, each with start < end (end exclusive); every speech
\* window lies in exactly one segment and no other window in any; a run
\* still open at the last window is closed as the final segment, ending at
\* the window count.
C20_SegmentsAreMaximalRuns ==
    Estimated =>
        /\ SeqToSet(estimated) = MaximalRuns
        /\ Len(estimated) = Cardinality(MaximalRuns)
        /\ \A i \in 1..Len(estimated) : estimated[i][1] < estimated[i][2]
        /\ \A i, j \in 1..Len(estimated) : i < j => estimated[i][2] <= estimated[j][1]
        /\ \A k \in 0..(Windows - 1) :
               Cardinality(SegmentsHolding(k)) = IF IsSpeech(k) THEN 1 ELSE 0
        /\ Windows > 0 /\ IsSpeech(Windows - 1) =>
               /\ Len(estimated) > 0
               /\ estimated[Len(estimated)][2] = Windows

\* two runs of speech, the second still open at the last window
C20_Witness ==
    /\ Estimated
    /\ waveform.frame_energy = << 10, 0, 1, 10, 10 >>
    /\ estimated = << << 0, 1 >>, << 3, 5 >> >>

(***************************************************************************)
(* _calculate_english_proficiency on its own, and the colour display_results *)
(* shows its value in.  audio_features is the feature vector and            *)
(* audio_path.text the transcription handed to it.                         *)
(***************************************************************************)
\* values around each threshold of the clarity and fluency tests, in
\* hundredths
RmsGrid == { -1, 0, Scale \div 100, Scale \div 100 + 1, VeryLarge }
ZcrGrid ==
    { (30 * Scale) \div 100, (30 * Scale) \div 100 + 1, (70 * Scale) \div 100 - 1,
      (70 * Scale) \div 100 }
CentroidGrid == { 1000 * Scale, 1000 * Scale + 1 }
SpeechRateGrid == { 3 * Scale - 1, 3 * Scale, 7 * Scale, 7 * Scale + 1 }
FluencyTempoGrid == { 120 * Scale - 1, 120 * Scale, 200 * Scale, 200 * Scale + 1 }

\* feature vectors whose values are all numbers, one of them without entries
NumericVectors ==
    { [ mapping |-> TRUE, nonnum |-> {},
        val |-> ("rms_mean" :> r) @@ ("zcr_mean" :> z) @@ ("spectral_centroid_mean" :> c)
                @@ ("speech_rate" :> sp) @@ ("tempo" :> t) ] :
        r \in RmsGrid, z \in ZcrGrid, c \in CentroidGrid,
        sp \in SpeechRateGrid, t \in FluencyTempoGrid }
    \cup { [ mapping |-> TRUE, nonnum |-> {}, val |-> NoEntries ] }

\* feature vectors on which a comparison of the try block raises
RaisingVectors ==
    { NotAMapping,
      [ mapping |-> TRUE, nonnum |-> { "tempo" },
        val |-> ("rms_mean" :> VeryLarge) @@ ("zcr_mean" :> (50 * Scale) \div 100)
                @@ ("spectral_centroid_mean" :> 1000 * Scale + 1)
                @@ ("speech_rate" :> 3 * Scale) @@ ("tempo" :> 0) ] }

\* transcriptions: empty, blank, a lone full stop, one word, five words,
\* eleven different words with a full stop, twelve different words without
\* one, ten different words, one word eleven times
ProficiencyTranscripts ==
    { "", " ", ".", "hello", ExampleTranscript,
      "we met at the old mill by nine and then walked home.",
      "we met at the old mill by nine and then walked home",
      "we met at the old mill by nine and",
      "no no no no no no no no no no no" }

InitProficiency ==
    /\ accent_features = AccentFeaturesInit
    /\ pc = "ready"
    /\ audio_path \in { Heard(t) : t \in ProficiencyTranscripts }
    /\ audio_features \in NumericVectors \cup RaisingVectors
    /\ result = NoResult
    /\ calls = 0
    /\ earlier = NoCall
    /\ RestIdle

\* proficiency_color = "#00b894" if english_score >= 80 else "#e17055" if
\* english_score < 60 else "#fdcb6e"
ProficiencyColor(score) ==
    IF score >= 80 * Pt THEN "#00b894" ELSE IF score < 60 * Pt THEN "#e17055" ELSE "#fdcb6e"

\* english_proficiency = self._calculate_english_proficiency(audio_features,
\* transcription), and the colour display_results picks for it
GradeProficiency ==
    /\ pc = "ready"
    /\ LET value == CalculateEnglishProficiency(audio_features, audio_path.text)
       IN english_score' = [ value |-> value, color |-> ProficiencyColor(value) ]
    /\ pc' = "graded"
    /\ UNCHANGED << accent_features, audio_path, audio_features, result, calls, earlier,
                    report, jobvars, transcribevars, sub_scores, segmentvars >>

NextProficiency == GradeProficiency

SpecProficiency == InitProficiency /\ [][NextProficiency]_vars

\* the proficiency has been computed
Graded == pc = "graded"

\* C22: for a feature vector whose values are all numbers and any
\* transcription, the proficiency returned by _calculate_english_proficiency
\* is at most 46 (0.4 x 55 + 0.3 x 40 + 0.3 x 40), and at most 34 when the
\* transcription is empty; it is therefore below both 60 and 80, and
\* display_results always shows it in the colour of the lowest grade.
C22_ProficiencyAtMost46 ==
    (Graded /\ ~ProficiencyRaises(audio_features)) =>
        /\ 0 <= english_score.value
        /\ english_score.value <= 46 * Pt
        /\ audio_path.text = "" => english_score.value <= 34 * Pt
        /\ english_score.value < 60 * Pt
        /\ english_score.color = "#e17055"

\* every test of the three scores passes: the proficiency is 46
C22_Witness ==
    /\ Graded
    /\ ~ProficiencyRaises(audio_features)
    /\ audio_path.text # ""
    /\ english_score.value = 46 * Pt

====
